---- MODULE Spec2Model ----
(***************************************************************************)
(* A model of slime2schem: the slime-world decoder (slime/reader.go), the  *)
(* converter (converter.Convert) and the Sponge-schematic encoder          *)
(* (schematic/writer.go).  Each component has its own specification over   *)
(* the shared variables; a specification leaves the other components'      *)
(* variables at their idle values.                                         *)
(***************************************************************************)
EXTENDS Integers, Sequences, FiniteSets, TLC

VARIABLES
    mode,       \* which component's specification is running
    schem,      \* schematic.Schematic
    passed,     \* every block state string passed to SetBlock so far
    placed,     \* the distinct strings passed at an index inside the
                \* volume, in the order of their first such call
    saved,      \* what Schematic.Save returned and wrote
    vin,        \* input []uint16 of writeBlockDataVarints
    vout,       \* what writeBlockDataVarints did: [done, log, maxBuf]
    sec,        \* a slime.Section
    secSrc,     \* how sec was made, and the indices packed into it
    got,        \* the last GetBlockAt call on sec and what it returned
    world,      \* the slime.SlimeWorld handed to Convert
    conv,       \* what Convert returned
    file,       \* the bytes handed to ReadSlimeWorld
    rd          \* what ReadSlimeWorld returned, and every read it made

writerVars == <<schem, passed, placed, saved>>
varintVars == <<vin, vout>>
sectionVars == <<sec, secSrc, got>>
convertVars == <<world, conv>>
readerVars == <<file, rd>>
vars == <<mode, writerVars, varintVars, sectionVars, convertVars, readerVars>>

(***************************************************************************)
(* Bounds of the model                                                     *)
(***************************************************************************)
MaxDim == 2          \* largest Width of a schematic built by hand
MaxSmallLen == 3     \* the short index arrays tried: lengths 0..MaxSmallLen

(***************************************************************************)
(* Integer widths                                                          *)
(***************************************************************************)
MaxInt32 == 2147483647
MinInt32 == -MaxInt32 - 1

\* uint16(v) for v >= 0
Uint16(v) == v % 65536

\* int16(v): the low 16 bits of v, read as a signed value
Int16(v) == LET m == v % 65536 IN IF m >= 32768 THEN m - 65536 ELSE m

\* byteLen++ on an int32
Inc32(v) == IF v = MaxInt32 THEN MinInt32 ELSE v + 1

Min(a, b) == IF a < b THEN a ELSE b

\* Op applied to v: v is computed once, however often Op uses it.
With(v, Op(_)) == Op(v)

\* Long loops are evaluated tile by tile, 64 iterations to a tile.
TileEnd(i, n) == Min(i + 63, n)

(***************************************************************************)
(* schematic/writer.go: the manual NBT writer                              *)
(***************************************************************************)
tagEnd == 0
tagShort == 2
tagInt == 3
tagByteArray == 7
tagCompound == 10
tagIntArray == 11

\* One write to the underlying gzip stream.  k: "tag" (type byte, name
\* length and name), "be" (a big-endian value), "raw" (bytes), "free" (the
\* release of blockData, which writes nothing).
Ev(k, t, n, v, b) == [k |-> k, t |-> t, n |-> n, v |-> v, b |-> b]

NewWriter == [log |-> <<>>, err |-> FALSE]

\* nbtWriter.write / writeBE: skipped once an error is recorded.  The
\* stream is a gzip writer over a bytes.Buffer, whose Write never fails.
wWrite(w, e) == IF w.err THEN w ELSE [w EXCEPT !.log = Append(@, e)]

writeTagHeader(w, tagType, name) == wWrite(w, Ev("tag", tagType, name, 0, <<>>))

beginCompound(w, name) == writeTagHeader(w, tagCompound, name)

endCompound(w) == wWrite(w, Ev("raw", tagEnd, "", 0, <<tagEnd>>))

writeInt(w, name, v) ==
    wWrite(writeTagHeader(w, tagInt, name), Ev("be", tagInt, name, v, <<>>))

writeShort(w, name, v) ==
    wWrite(writeTagHeader(w, tagShort, name), Ev("be", tagShort, name, v, <<>>))

writeIntArray(w, name, v) ==
    wWrite(wWrite(writeTagHeader(w, tagIntArray, name),
                  Ev("be", tagIntArray, name, Len(v), <<>>)),
           Ev("raw", tagIntArray, name, 0, v))

\* The varint with the value shifted by 8 bits for each byte.
RECURSIVE VarintBytes_Shift8(_)
VarintBytes_Shift8(uv) ==
    IF uv >= 128 THEN <<(uv % 128) + 128>> \o VarintBytes_Shift8(uv \div 256)
    ELSE <<uv>>

\* The varint of one uint16: 7 value bits per byte, low group first, 0x80
\* on every byte but the last.
RECURSIVE VarintBytes(_)
VarintBytes(uv) ==
    IF uv >= 128 THEN <<(uv % 128) + 128>> \o VarintBytes(uv \div 128)
    ELSE <<uv>>

\* The first pass testing uv > 0x80 where the second tests uv >= 0x80.
RECURSIVE VarintCount_Strict(_, _)
VarintCount_Strict(uv, byteLen) ==
    IF uv > 128 THEN VarintCount_Strict(uv \div 128, Inc32(byteLen))
    ELSE Inc32(byteLen)

\* First pass of writeBlockDataVarints: one element's contribution.
RECURSIVE VarintCount(_, _)
VarintCount(uv, byteLen) ==
    IF uv >= 128 THEN VarintCount(uv \div 128, Inc32(byteLen))
    ELSE Inc32(byteLen)

RECURSIVE Pass1Tile(_, _, _, _), Pass1(_, _, _)
Pass1Tile(data, i, hi, byteLen) ==
    IF i > hi \/ byteLen < MinInt32 THEN byteLen
    ELSE Pass1Tile(data, i + 1, hi, VarintCount(data[i], byteLen))
Pass1(data, i, byteLen) ==
    IF i > Len(data) \/ byteLen < MinInt32 THEN byteLen
    ELSE LET hi == TileEnd(i, Len(data))
         IN Pass1(data, hi + 1, Pass1Tile(data, i, hi, byteLen))

BufCap == 4096
FlushAt == 4000

\* Second pass: st = [w, buf, maxBuf, stop]; maxBuf is the longest the
\* staging buffer has been, stop is the early return on a write error.
Pass2Step(st, v) ==
    LET buf == st.buf \o VarintBytes(v)
        mb == IF Len(buf) > st.maxBuf THEN Len(buf) ELSE st.maxBuf
    IN IF Len(buf) >= FlushAt
       THEN LET w2 == wWrite(st.w, Ev("raw", tagByteArray, "", 0, buf))
            IN [w |-> w2, buf |-> <<>>, maxBuf |-> mb, stop |-> w2.err]
       ELSE [st EXCEPT !.buf = buf, !.maxBuf = mb]

RECURSIVE Pass2Tile(_, _, _, _), Pass2(_, _, _)
Pass2Tile(data, i, hi, st) ==
    IF i > hi \/ st.stop THEN st
    ELSE Pass2Tile(data, i + 1, hi, Pass2Step(st, data[i]))
Pass2(data, i, st) ==
    IF i > Len(data) \/ st.stop THEN st
    ELSE LET hi == TileEnd(i, Len(data))
         IN Pass2(data, hi + 1, Pass2Tile(data, i, hi, st))

\* writeBlockDataVarints, returning the writer and the staging buffer's
\* high-water mark.
BlockDataVarints(w, name, data) ==
    IF w.err THEN [w |-> w, maxBuf |-> 0]
    ELSE LET byteLen == Pass1(data, 1, 0)
             w1 == wWrite(writeTagHeader(w, tagByteArray, name),
                          Ev("be", tagByteArray, name, byteLen, <<>>))
             st == Pass2(data, 1, [w |-> w1, buf |-> <<>>, maxBuf |-> 0,
                                   stop |-> FALSE])
         IN IF st.stop THEN [w |-> st.w, maxBuf |-> st.maxBuf]
            ELSE IF Len(st.buf) > 0
            THEN [w |-> wWrite(st.w, Ev("raw", tagByteArray, "", 0, st.buf)),
                  maxBuf |-> st.maxBuf]
            ELSE [w |-> st.w, maxBuf |-> st.maxBuf]

writeBlockDataVarints(w, name, data) == BlockDataVarints(w, name, data).w

\* writeNamedNBT: the list is encoded by the NBT library and spliced in
\* without the library's 3-byte header and its closing end tag.
writeNamedNBT(w, name, n) ==
    IF w.err THEN w ELSE wWrite(w, Ev("raw", tagCompound, name, n, <<>>))

(***************************************************************************)
(* schematic/writer.go: Schematic                                          *)
(***************************************************************************)
Air == "minecraft:air"

NewSchematic(width, height, length, dataVersion) ==
    [Width |-> width, Height |-> height, Length |-> length,
     DataVersion |-> dataVersion, Offset |-> <<0, 0, 0>>,
     Palette |-> [n \in {Air} |-> 0],
     blockData |-> [i \in 1..(width * height * length) |-> 0],
     BlockEntities |-> 0, Entities |-> 0]

\* SetBlock numbering a new palette entry one too high.
SetBlock_SkipsIndex(s, x, y, z, blockState) ==
    LET index == x + z * s.Width + y * s.Width * s.Length
    IN IF index < 0 \/ index >= Len(s.blockData) THEN s
       ELSE LET ok == blockState \in DOMAIN s.Palette
                paletteIdx == IF ok THEN s.Palette[blockState]
                              ELSE Cardinality(DOMAIN s.Palette) + 1
                pal == IF ok THEN s.Palette
                       ELSE [n \in DOMAIN s.Palette \cup {blockState} |->
                               IF n = blockState THEN paletteIdx
                               ELSE s.Palette[n]]
            IN [s EXCEPT !.Palette = pal,
                         !.blockData[index + 1] = Uint16(paletteIdx)]

\* Schematic.SetBlock.  blockData is 0-based in the code, 1-based here.
SetBlock(s, x, y, z, blockState) ==
    LET index == x + z * s.Width + y * s.Width * s.Length
    IN IF index < 0 \/ index >= Len(s.blockData) THEN s
       ELSE LET ok == blockState \in DOMAIN s.Palette
                paletteIdx == IF ok THEN s.Palette[blockState]
                              ELSE Cardinality(DOMAIN s.Palette)
                pal == IF ok THEN s.Palette
                       ELSE [n \in DOMAIN s.Palette \cup {blockState} |->
                               IF n = blockState THEN paletteIdx
                               ELSE s.Palette[n]]
            IN [s EXCEPT !.Palette = pal,
                         !.blockData[index + 1] = Uint16(paletteIdx)]

\* The palette loop of Save; order is the order in which Go's map
\* iteration yields the keys.
RECURSIVE writePalette(_, _, _, _)
writePalette(w, pal, order, i) ==
    IF i > Len(order) THEN w
    ELSE writePalette(writeInt(w, order[i], pal[order[i]]), pal, order, i + 1)

\* Save that keeps blockData until the schematic itself is dropped.
Save_KeepsBuffer(s, order) ==
    LET w1 == beginCompound(beginCompound(NewWriter, ""), "Schematic")
        w2 == writeInt(writeInt(w1, "Version", 3), "DataVersion", s.DataVersion)
        w3 == writeShort(writeShort(writeShort(w2, "Width", Int16(s.Width)),
                                    "Height", Int16(s.Height)),
                         "Length", Int16(s.Length))
        w4 == beginCompound(writeIntArray(w3, "Offset", s.Offset), "Blocks")
        w5 == endCompound(writePalette(beginCompound(w4, "Palette"),
                                       s.Palette, order, 1))
        w6 == writeBlockDataVarints(w5, "Data", s.blockData)
        w8 == IF s.BlockEntities > 0
              THEN writeNamedNBT(w6, "BlockEntities", s.BlockEntities) ELSE w6
        w9 == endCompound(w8)
        w10 == IF s.Entities > 0
               THEN writeNamedNBT(w9, "Entities", s.Entities) ELSE w9
        w11 == endCompound(endCompound(w10))
    IN [s |-> s, ok |-> ~w11.err, log |-> w11.log]

\* Schematic.Save: [s |-> the schematic afterwards, ok, log |-> every write
\* in order, with a "free" mark where blockData is released].
Save(s, order) ==
    LET w1 == beginCompound(beginCompound(NewWriter, ""), "Schematic")
        w2 == writeInt(writeInt(w1, "Version", 3), "DataVersion", s.DataVersion)
        w3 == writeShort(writeShort(writeShort(w2, "Width", Int16(s.Width)),
                                    "Height", Int16(s.Height)),
                         "Length", Int16(s.Length))
        w4 == beginCompound(writeIntArray(w3, "Offset", s.Offset), "Blocks")
        w5 == endCompound(writePalette(beginCompound(w4, "Palette"),
                                       s.Palette, order, 1))
        w6 == writeBlockDataVarints(w5, "Data", s.blockData)
        w7 == [w6 EXCEPT !.log = Append(@, Ev("free", 0, "", 0, <<>>))]
        w8 == IF s.BlockEntities > 0
              THEN writeNamedNBT(w7, "BlockEntities", s.BlockEntities) ELSE w7
        w9 == endCompound(w8)
        w10 == IF s.Entities > 0
               THEN writeNamedNBT(w9, "Entities", s.Entities) ELSE w9
        w11 == endCompound(endCompound(w10))
    IN [s |-> [s EXCEPT !.blockData = <<>>], ok |-> ~w11.err, log |-> w11.log]

\* All orders in which a map with key set S can be iterated.
Perms(S) ==
    {p \in [1..Cardinality(S) -> S] : \A i, j \in DOMAIN p : p[i] = p[j] => i = j}

(***************************************************************************)
(* Specification of the encoder: a schematic built by hand, SetBlock and   *)
(* Save called on it in any order                                          *)
(***************************************************************************)
BlockNames == {Air, "minecraft:stone", "minecraft:oak_stairs[facing=north]"}

Range(f) == {f[i] : i \in DOMAIN f}

IdleSchem == NewSchematic(0, 0, 0, 0)
IdleSaved == [done |-> FALSE, ok |-> FALSE, log |-> <<>>, passed |-> {},
              placed |-> <<>>, data |-> <<>>]
IdleVout == [done |-> FALSE, log |-> <<>>, maxBuf |-> 0]
IdleSec == [BlockPalette |-> <<>>, BlockStates |-> <<>>, BitsPerBlock |-> 0]
IdleSecSrc == [kind |-> "none", n |-> 0, p |-> 0, pad |-> 0]
IdleGot == [done |-> FALSE, x |-> 0, y |-> 0, z |-> 0, bs |-> <<>>]

\* The variables of the components a specification does not run.
WriterIdle == schem = IdleSchem /\ passed = {} /\ placed = <<>> /\ saved = IdleSaved
VarintsIdle == vin = <<>> /\ vout = IdleVout
SectionIdle == sec = IdleSec /\ secSrc = IdleSecSrc /\ got = IdleGot
IdleWorld == [WorldVersion |-> 0, Chunks |-> <<>>]
IdleConv == [done |-> FALSE, kind |-> "none", schem |-> IdleSchem,
             TotalBlocks |-> 0]
ConvertIdle == world = IdleWorld /\ conv = IdleConv
NoBytes == <<>>
IdleFile == [bytes |-> NoBytes,
             zstd |-> [at |-> 0, n |-> 0, ok |-> FALSE, out |-> NoBytes]]
IdleRd == [done |-> FALSE]
ReaderIdle == file = IdleFile /\ rd = IdleRd

WriterInit ==
    /\ mode = "writer"
    /\ \E w \in 0..MaxDim, be \in 0..1, en \in 0..1 :
          schem = [NewSchematic(w, 1, 1, 3465) EXCEPT !.BlockEntities = be,
                                                     !.Entities = en]
    /\ passed = {}
    /\ placed = <<>>
    /\ saved = IdleSaved
    /\ VarintsIdle
    /\ SectionIdle
    /\ ConvertIdle
    /\ ReaderIdle

\* One call of SetBlock, at a position inside or outside the volume.
DoSetBlock ==
    /\ mode = "writer"
    /\ \E x \in -1..MaxDim, y \in 0..1, z \in 0..1, bs \in BlockNames :
          LET index == x + z * schem.Width + y * schem.Width * schem.Length
              inside == index >= 0 /\ index < Len(schem.blockData)
          IN /\ schem' = SetBlock(schem, x, y, z, bs)
             /\ passed' = passed \cup {bs}
             /\ placed' = IF inside /\ bs # Air /\ bs \notin Range(placed)
                          THEN Append(placed, bs) ELSE placed
    /\ UNCHANGED <<mode, saved, varintVars, sectionVars, convertVars, readerVars>>

\* One call of Save, with the palette map iterated in some order.
DoSave ==
    /\ mode = "writer"
    /\ ~saved.done
    /\ \E order \in Perms(DOMAIN schem.Palette) :
          LET r == Save(schem, order)
          IN /\ schem' = r.s
             /\ saved' = [done |-> TRUE, ok |-> r.ok, log |-> r.log,
                          passed |-> passed, placed |-> placed,
                          data |-> schem.blockData]
    /\ UNCHANGED <<mode, passed, placed, varintVars, sectionVars, convertVars, readerVars>>

WriterNext == DoSetBlock \/ DoSave

SpecWriter == WriterInit /\ [][WriterNext]_vars

(***************************************************************************)
(* Reading back what Save wrote                                            *)
(***************************************************************************)
\* Position in log of the header of the compound called name (0: none).
CompoundAt(log, name) ==
    LET S == {i \in DOMAIN log :
                log[i].k = "tag" /\ log[i].t = tagCompound /\ log[i].n = name}
    IN IF S = {} THEN 0 ELSE CHOOSE i \in S : \A j \in S : i <= j

IsEnd(e) == e.k = "raw" /\ e.t = tagEnd

\* The tags of the Palette sub-tree, in the order written: the <<name,
\* value>> of each int tag from the Palette header up to its end marker.
RECURSIVE IntTagsFrom(_, _)
IntTagsFrom(log, i) ==
    IF i + 1 > Len(log) \/ IsEnd(log[i]) THEN <<>>
    ELSE IF log[i].k = "tag" /\ log[i].t = tagInt /\ log[i + 1].k = "be"
    THEN <<(<<log[i].n, log[i + 1].v>>)>> \o IntTagsFrom(log, i + 2)
    ELSE <<(<<"?", -1>>)>>

PaletteTags(log) ==
    IF CompoundAt(log, "Palette") = 0 THEN <<>>
    ELSE IntTagsFrom(log, CompoundAt(log, "Palette") + 1)

\* tags holds exactly one tag per name of names, and the tag of first[k]
\* has the value k, that of minecraft:air the value 0.
OneTagEach(tags, names, first) ==
    /\ {t[1] : t \in Range(tags)} = names
    /\ Len(tags) = Cardinality(names)
    /\ \A t \in Range(tags) :
          \/ t[1] = Air /\ t[2] = 0
          \/ \E k \in DOMAIN first : first[k] = t[1] /\ t[2] = k
    /\ {t[2] : t \in Range(tags)} = 0..(Len(tags) - 1)

\* C1 (original statement): after SetBlock calls followed by Save, the
\* Palette sub-tree holds exactly one int tag per distinct string ever
\* passed to SetBlock, plus minecraft:air, with the values 0..n-1 in
\* first-use order.
C1_EveryPassedString ==
    saved.done =>
        /\ {t[1] : t \in Range(PaletteTags(saved.log))} = saved.passed \cup {Air}
        /\ Len(PaletteTags(saved.log)) = Cardinality(saved.passed \cup {Air})

\* C1 (amended): the Palette sub-tree holds exactly one int tag per distinct
\* string passed to a SetBlock call whose linear index x + z*Width +
\* y*Width*Length lies inside the volume, plus minecraft:air; minecraft:air
\* has the value 0 and the k-th new such string the value k, so the values
\* are exactly 0..n-1.  A call outside the volume adds nothing.
C1_PaletteFirstUse ==
    saved.done =>
        /\ saved.ok
        /\ OneTagEach(PaletteTags(saved.log),
                      Range(saved.placed) \cup {Air}, saved.placed)

\* C1 witness: Save ran after one non-air string was placed inside the
\* volume and another was passed only to a call outside it; two tags
\* were written.
C1_Witness ==
    /\ saved.done
    /\ Len(saved.placed) = 1
    /\ saved.passed \ (Range(saved.placed) \cup {Air}) # {}
    /\ Len(PaletteTags(saved.log)) = 2

(***************************************************************************)
(* Specification of writeBlockDataVarints alone: an index array, then the  *)
(* call on a fresh writer                                                  *)
(***************************************************************************)
\* Values at the edges of the 1-, 2- and 3-byte varints.
VarintEdges == {0, 127, 128, 16383, 16384, 65535}

\* Lengths around the staging buffer's flush threshold.
LongLens == {1333, 1334, 1999, 2000, 2667, 3999, 4000, 4001, 4100}

\* The i-th value of the p-th long array.
PatternValue(p, i) ==
    CASE p = 1 -> 0
      [] p = 2 -> 65535
      [] p = 3 -> 128
      [] p = 4 -> IF i % 2 = 0 THEN 16384 ELSE 127
      [] p = 5 -> (i * 7919) % 65536
      [] OTHER -> IF i % 3 = 0 THEN 65535 ELSE IF i % 3 = 1 THEN 0 ELSE 300

SeqsUpTo(S, n) == UNION {[1..k -> S] : k \in 0..n}

\* Every uint16, in 16 arrays of 4096 consecutive values.
AllValues == {[i \in 1..4096 |-> 4096 * k + (i - 1)] : k \in 0..15}

VarintInputs ==
    SeqsUpTo(VarintEdges, MaxSmallLen)
    \cup {[i \in 1..n |-> PatternValue(p, i)] : n \in LongLens, p \in 1..6}
    \cup AllValues \cup {<<300>>}

VarintsInit ==
    /\ mode = "varints"
    /\ vin \in VarintInputs
    /\ vout = IdleVout
    /\ WriterIdle
    /\ SectionIdle
    /\ ConvertIdle
    /\ ReaderIdle

DoVarints ==
    /\ mode = "varints"
    /\ ~vout.done
    /\ LET r == BlockDataVarints(NewWriter, "Data", vin)
       IN vout' = [done |-> TRUE, log |-> r.w.log, maxBuf |-> r.maxBuf]
    /\ UNCHANGED <<mode, vin, writerVars, sectionVars, convertVars, readerVars>>

SpecVarints == VarintsInit /\ [][DoVarints]_vars

\* The bytes of the raw writes log[i..], concatenated.
RECURSIVE RawFrom(_, _)
RawFrom(log, i) ==
    IF i > Len(log) THEN <<>> ELSE log[i].b \o RawFrom(log, i + 1)

\* The varints of data[i..hi], concatenated after acc.
RECURSIVE ConcatTile(_, _, _, _), ConcatVarints(_, _, _)
ConcatTile(data, i, hi, acc) ==
    IF i > hi \/ Len(acc) < 0 THEN acc
    ELSE ConcatTile(data, i + 1, hi, acc \o VarintBytes(data[i]))
ConcatVarints(data, i, acc) ==
    IF i > Len(data) \/ Len(acc) < 0 THEN acc
    ELSE ConcatVarints(data, TileEnd(i, Len(data)) + 1,
                       ConcatTile(data, i, TileEnd(i, Len(data)), acc))

RECURSIVE DecodeAt(_, _)
DecodeAt(bytes, i) ==
    IF i > Len(bytes) THEN [v |-> 0, n |-> 0, ok |-> FALSE]
    ELSE IF bytes[i] < 128 THEN [v |-> bytes[i], n |-> 1, ok |-> TRUE]
    ELSE With(DecodeAt(bytes, i + 1), LAMBDA r :
           [v |-> (bytes[i] - 128) + 128 * r.v, n |-> r.n + 1, ok |-> r.ok])

\* The number of bytes the claim gives the varint of v.
VarintSize(v) == IF v < 128 THEN 1 ELSE IF v < 16384 THEN 2 ELSE 3

\* The position in bytes after the varints of data[lo..hi] read from
\* position i on, -1 when one of them does not decode to its value in
\* the stated number of bytes.  The range is halved to keep the
\* evaluation shallow.
RECURSIVE DecodeRange(_, _, _, _, _)
DecodeRange(bytes, i, data, lo, hi) ==
    IF lo > hi \/ i < 0 THEN i
    ELSE IF lo = hi
    THEN With(DecodeAt(bytes, i), LAMBDA r :
           IF r.ok /\ r.v = data[lo] /\ r.n = VarintSize(data[lo])
           THEN i + r.n
           ELSE -1)
    ELSE With(DecodeRange(bytes, i, data, lo, (lo + hi) \div 2), LAMBDA m :
           IF m < 0 THEN -1
           ELSE DecodeRange(bytes, m, data, (lo + hi) \div 2 + 1, hi))

DecodeAll(bytes, i, data, j) == DecodeRange(bytes, i, data, j, Len(data))

\* C14: the bytes streamed for the Data array decode back to the indices:
\* each index v is read from 7 value bits per byte, least significant
\* group first, up to the first byte without the bit 0x80, in 1, 2 or 3
\* bytes for v < 128, v < 16384 and v >= 16384, and nothing else is
\* streamed; 300 is written as 0xAC, 0x02.
C14_VarintRoundTrip ==
    vout.done =>
       With(RawFrom(vout.log, 3), LAMBDA bytes :
         /\ DecodeAll(bytes, 1, vin, 1) = Len(bytes) + 1
         /\ vin = <<300>> => bytes = <<172, 2>>)

\* The array of the 4096 highest indices was streamed.
C14_Witness ==
    /\ vout.done
    /\ Len(vin) = 4096
    /\ vin[1] = 61440
    /\ vin[4096] = 65535
    /\ vout.log[2].v = 3 * 4096

\* The array holding 300 alone was streamed.
C14_ThreeHundred == vout.done /\ vin = <<300>>

(***************************************************************************)
(* slime/reader.go: Section and GetBlockAt                                 *)
(*                                                                         *)
(* An int64 of BlockStates is four 16-bit limbs, lowest first: the word    *)
(* <<l0, l1, l2, l3>> has the bits of l0 + l1*2^16 + l2*2^32 + l3*2^48, bit *)
(* 63 being its sign.                                                      *)
(***************************************************************************)
BlockStateOf(name) == [Name |-> name, Properties |-> <<>>]

\* What a Go run-time panic (integer divide by zero, index out of range)
\* leaves in place of a result.
Panic == [Name |-> "panic", Properties |-> <<>>]

\* Bit j of an int64; past bit 63 an arithmetic shift repeats the sign.
Bit(word, j) ==
    LET jj == IF j > 63 THEN 63 ELSE j
    IN (word[(jj \div 16) + 1] \div (2 ^ (jj % 16))) % 2

\* Bit j of word >> off on an int64
ShiftRight(word, off, j) == Bit(word, off + j)

\* int((word >> off) & mask) for a mask below 2^31: the sum of the bits
\* set in both, none of them above the mask's highest
RECURSIVE AndMask(_, _, _, _)
AndMask(word, off, mask, j) ==
    IF j > 30 \/ 2 ^ j > mask THEN 0
    ELSE (IF (mask \div (2 ^ j)) % 2 = 1 THEN ShiftRight(word, off, j) * (2 ^ j)
          ELSE 0)
         + AndMask(word, off, mask, j + 1)

\* GetBlockAt reading position z*256 + y*16 + x.
GetBlockAt_SwapsYZ(s, x, y, z) ==
    IF Len(s.BlockPalette) = 0 THEN BlockStateOf(Air)
    ELSE IF Len(s.BlockPalette) = 1 THEN s.BlockPalette[1]
    ELSE IF Len(s.BlockStates) = 0 THEN s.BlockPalette[1]
    ELSE IF s.BitsPerBlock <= 0 \/ s.BitsPerBlock > 64 THEN Panic
    ELSE
    LET blockIndex == z * 256 + y * 16 + x
        bitsPerBlock == s.BitsPerBlock
        blocksPerLong == 64 \div bitsPerBlock
        longIndex == blockIndex \div blocksPerLong
        bitOffset == (blockIndex % blocksPerLong) * bitsPerBlock
    IN IF longIndex >= Len(s.BlockStates) THEN s.BlockPalette[1]
       ELSE IF longIndex < 0 THEN Panic
       ELSE LET mask == (2 ^ bitsPerBlock) - 1
                paletteIndex ==
                    AndMask(s.BlockStates[longIndex + 1], bitOffset, mask, 0)
            IN IF paletteIndex >= Len(s.BlockPalette) THEN s.BlockPalette[1]
               ELSE s.BlockPalette[paletteIndex + 1]

\* GetBlockAt without the check of longIndex against the array's length.
GetBlockAt_NoLengthCheck(s, x, y, z) ==
    IF Len(s.BlockPalette) = 0 THEN BlockStateOf(Air)
    ELSE IF Len(s.BlockPalette) = 1 THEN s.BlockPalette[1]
    ELSE IF Len(s.BlockStates) = 0 THEN s.BlockPalette[1]
    ELSE IF s.BitsPerBlock <= 0 \/ s.BitsPerBlock > 64 THEN Panic
    ELSE
    LET blockIndex == y * 256 + z * 16 + x
        bitsPerBlock == s.BitsPerBlock
        blocksPerLong == 64 \div bitsPerBlock
        longIndex == blockIndex \div blocksPerLong
        bitOffset == (blockIndex % blocksPerLong) * bitsPerBlock
    IN IF longIndex < 0 \/ longIndex >= Len(s.BlockStates) THEN Panic
       ELSE LET mask == (2 ^ bitsPerBlock) - 1
                paletteIndex ==
                    AndMask(s.BlockStates[longIndex + 1], bitOffset, mask, 0)
            IN IF paletteIndex >= Len(s.BlockPalette) THEN s.BlockPalette[1]
               ELSE s.BlockPalette[paletteIndex + 1]

\* GetBlockAt without the test for an empty palette: indexing the empty
\* palette panics.
GetBlockAt_NoEmptyCheck(s, x, y, z) ==
    IF Len(s.BlockPalette) = 1 THEN s.BlockPalette[1]
    ELSE IF Len(s.BlockStates) = 0
    THEN (IF Len(s.BlockPalette) = 0 THEN Panic ELSE s.BlockPalette[1])
    ELSE IF s.BitsPerBlock <= 0 \/ s.BitsPerBlock > 64 THEN Panic
    ELSE
    LET blockIndex == y * 256 + z * 16 + x
        bitsPerBlock == s.BitsPerBlock
        blocksPerLong == 64 \div bitsPerBlock
        longIndex == blockIndex \div blocksPerLong
        bitOffset == (blockIndex % blocksPerLong) * bitsPerBlock
    IN IF Len(s.BlockPalette) = 0 THEN Panic
       ELSE IF longIndex >= Len(s.BlockStates) THEN s.BlockPalette[1]
       ELSE IF longIndex < 0 THEN Panic
       ELSE LET mask == (2 ^ bitsPerBlock) - 1
                paletteIndex ==
                    AndMask(s.BlockStates[longIndex + 1], bitOffset, mask, 0)
            IN IF paletteIndex >= Len(s.BlockPalette) THEN s.BlockPalette[1]
               ELSE s.BlockPalette[paletteIndex + 1]

\* Section.GetBlockAt.  BlockPalette and BlockStates are 0-based in the
\* code, 1-based here.  A BitsPerBlock of 0 divides by zero at 64 /
\* bitsPerBlock, one above 64 at blockIndex / blocksPerLong, and a
\* negative longIndex is out of range: each panics.
GetBlockAt(s, x, y, z) ==
    IF Len(s.BlockPalette) = 0 THEN BlockStateOf(Air)
    ELSE IF Len(s.BlockPalette) = 1 THEN s.BlockPalette[1]
    ELSE IF Len(s.BlockStates) = 0 THEN s.BlockPalette[1]
    ELSE IF s.BitsPerBlock <= 0 \/ s.BitsPerBlock > 64 THEN Panic
    ELSE
    LET blockIndex == y * 256 + z * 16 + x
        bitsPerBlock == s.BitsPerBlock
        blocksPerLong == 64 \div bitsPerBlock
        longIndex == blockIndex \div blocksPerLong
        bitOffset == (blockIndex % blocksPerLong) * bitsPerBlock
    IN IF longIndex >= Len(s.BlockStates) THEN s.BlockPalette[1]
       ELSE IF longIndex < 0 THEN Panic
       ELSE LET mask == (2 ^ bitsPerBlock) - 1
                paletteIndex ==
                    AndMask(s.BlockStates[longIndex + 1], bitOffset, mask, 0)
            IN IF paletteIndex >= Len(s.BlockPalette) THEN s.BlockPalette[1]
               ELSE s.BlockPalette[paletteIndex + 1]

\* The bits loop stopping one step late at a power of two.
RECURSIVE BitsLoop_Inclusive(_, _)
BitsLoop_Inclusive(bits, paletteSize) ==
    IF (2 ^ bits) <= paletteSize THEN BitsLoop_Inclusive(bits + 1, paletteSize)
    ELSE bits

\* The bits-per-block loop of parseBlockStatesNBT.
RECURSIVE BitsLoop(_, _)
BitsLoop(bits, paletteSize) ==
    IF (2 ^ bits) < paletteSize THEN BitsLoop(bits + 1, paletteSize) ELSE bits

BitsFor(paletteSize) ==
    IF paletteSize > 0
    THEN LET bits == BitsLoop(0, paletteSize) IN IF bits < 4 THEN 4 ELSE bits
    ELSE 4

\* parseBlockStatesNBT on a block that the NBT library unmarshals to doc =
\* [ok, Palette, Data]; ok is FALSE when the library reports an error.
parseBlockStatesNBT(doc) ==
    IF ~doc.ok
    THEN [ok |-> FALSE, palette |-> <<>>, states |-> <<>>, bitsPerBlock |-> 0]
    ELSE [ok |-> TRUE,
          palette |-> [i \in 1..Len(doc.Palette) |->
                         [Name |-> doc.Palette[i].Name,
                          Properties |-> doc.Palette[i].Properties]],
          states |-> doc.Data,
          bitsPerBlock |-> BitsFor(Len(doc.Palette))]

(***************************************************************************)
(* Specification of GetBlockAt: a section, decoded from a block-states     *)
(* record or built by hand, then GetBlockAt calls on it                    *)
(***************************************************************************)
MaxPalette == 18     \* largest palette of a decoded section

NameOf(i) ==
    IF i = 1 THEN "minecraft:stone" ELSE "minecraft:block_" \o ToString(i)

PaletteOf(n) == [i \in 1..n |-> BlockStateOf(NameOf(i))]

\* Number of words holding 4096 entries of b bits, floor(64/b) to a word.
FullLen(b) == (4096 + (64 \div b) - 1) \div (64 \div b)

\* The palette index packed at linear position i: pattern p over a
\* palette of n entries, every index below n and below 2^b.
PatternIdx(p, n, b, i) ==
    LET lim == Min(n, 2 ^ b)
    IN IF lim = 0 THEN 0
       ELSE IF p = 1 THEN i % lim
       ELSE (lim - 1) - ((i * 7 + (i \div 16)) % lim)

\* Bit pos of word number w (from 0) of the packed array: entry k of the
\* word lies at bits k*b .. k*b+b-1; the bits past the last entry are pad.
PackedBit(p, n, b, pad, w, pos) ==
    LET epw == 64 \div b
        i == w * epw + (pos \div b)
    IN IF pos >= epw * b THEN pad
       ELSE IF i >= 4096 THEN 0
       ELSE (PatternIdx(p, n, b, i) \div (2 ^ (pos % b))) % 2

RECURSIVE PackedLimb(_, _, _, _, _, _, _)
PackedLimb(p, n, b, pad, w, l, j) ==
    IF j > 15 THEN 0
    ELSE PackedBit(p, n, b, pad, w, 16 * l + j) * (2 ^ j)
         + PackedLimb(p, n, b, pad, w, l, j + 1)

PackWords(p, n, b, pad, len) ==
    [w \in 1..len |-> [l \in 1..4 |-> PackedLimb(p, n, b, pad, w - 1, l - 1, 0)]]

\* The lengths of packed array tried for b bits per entry: absent, a
\* single word, and all 4096 entries.
DataLens(b) == {0, 1, FullLen(b)}

\* The index patterns tried, each with the value its padding bits take.
Fills == {<<1, 0>>, <<2, 1>>}

\* Palette sizes around the higher powers of two, decoded from records
\* without a packed array.
BigPalettes == {31, 32, 33, 63, 64, 65, 128, 129, 256, 257}

\* parseSection's assignments from what parseBlockStatesNBT returned.
SectionOf(r) ==
    [BlockPalette |-> r.palette, BlockStates |-> r.states,
     BitsPerBlock |-> r.bitsPerBlock]

(***************************************************************************)
(* converter: Convert                                                      *)
(***************************************************************************)
\* a + b and a - b on int32, wrapping
Add32(a, b) ==
    IF b > 0 /\ a > MaxInt32 - b THEN (a - MaxInt32 - 1) + (b + MinInt32)
    ELSE IF b < 0 /\ a < MinInt32 - b THEN (a - MinInt32) + (b + MaxInt32 + 1)
    ELSE a + b

Sub32(a, b) ==
    IF b = MinInt32 THEN Add32(Add32(a, MaxInt32), 1) ELSE Add32(a, -b)

\* The Go int c*16 for an int32 c, as hi*65536 + lo with lo in 0..65535:
\* a 36-bit value.
Times16(c) == [hi |-> c \div 4096, lo |-> (c % 4096) * 16]

\* int(maxC - minC + 1): the subtraction and the addition are done on
\* int32 and wrap.
ChunkSpan(mn, mx) == Add32(Sub32(mx, mn), 1)

\* The bounds loop of Convert over the chunks from i on.
RECURSIVE WorldBounds(_, _, _)
WorldBounds(chunks, i, b) ==
    IF i > Len(chunks) THEN b
    ELSE LET c == chunks[i]
             n == Len(c.Sections)
         IN WorldBounds(chunks, i + 1,
              [minCX |-> IF c.X < b.minCX THEN c.X ELSE b.minCX,
               maxCX |-> IF c.X > b.maxCX THEN c.X ELSE b.maxCX,
               minCZ |-> IF c.Z < b.minCZ THEN c.Z ELSE b.minCZ,
               maxCZ |-> IF c.Z > b.maxCZ THEN c.Z ELSE b.maxCZ,
               minSY |-> IF n > 0 /\ 0 < b.minSY THEN 0 ELSE b.minSY,
               maxSY |-> IF n > 0 /\ n - 1 > b.maxSY THEN n - 1 ELSE b.maxSY])

\* schematic.BlockStateString; props is the property map as the <<key,
\* value>> pairs in the order Go's map iteration yields them.
RECURSIVE JoinProps(_, _)
JoinProps(props, i) ==
    IF i > Len(props) THEN ""
    ELSE (IF i > 1 THEN "," ELSE "") \o props[i][1] \o "=" \o props[i][2]
         \o JoinProps(props, i + 1)

BlockStateString(name, props) ==
    IF Len(props) = 0 THEN name ELSE name \o "[" \o JoinProps(props, 1) \o "]"

\* The orders in which Go iterates over a property map of several keys
\* are not fixed, and may differ from call to call: the order the record
\* lists them in, the opposite one, and either one depending on the call.
IterKinds == {"forward", "reverse", "mixed"}

Reversed(props) == [i \in 1..Len(props) |-> props[Len(props) + 1 - i]]

MapOrder(props, iter, x) ==
    IF iter = "reverse" \/ (iter = "mixed" /\ x % 2 = 1) THEN Reversed(props)
    ELSE props

IsAirName(name) ==
    name = Air \/ name = "minecraft:cave_air" \/ name = "minecraft:void_air"

\* The loop body with the x and z offsets exchanged.
FillVoxel_SwapsXZ(st, section, d, baseX, baseY, baseZ, x, y, z) ==
    With(GetBlockAt(section, x, y, z), LAMBDA bs :
      LET sx == baseX + z
          sy == baseY + y
          sz == baseZ + x
      IN IF IsAirName(bs.Name) THEN st
         ELSE IF sx >= 0 /\ sx < d.width /\ sy >= 0 /\ sy < d.height
                 /\ sz >= 0 /\ sz < d.length
         THEN [s |-> SetBlock(st.s, sx, sy, sz,
                              BlockStateString(bs.Name,
                                               MapOrder(bs.Properties, d.iter, x))),
               n |-> st.n + 1]
         ELSE st)

\* The body of the innermost loop: st = [s |-> schematic, n |-> totalBlocks].
FillVoxel(st, section, d, baseX, baseY, baseZ, x, y, z) ==
    With(GetBlockAt(section, x, y, z), LAMBDA bs :
      LET sx == baseX + x
          sy == baseY + y
          sz == baseZ + z
      IN IF IsAirName(bs.Name) THEN st
         ELSE IF sx >= 0 /\ sx < d.width /\ sy >= 0 /\ sy < d.height
                 /\ sz >= 0 /\ sz < d.length
         THEN [s |-> SetBlock(st.s, sx, sy, sz,
                              BlockStateString(bs.Name,
                                               MapOrder(bs.Properties, d.iter, x))),
               n |-> st.n + 1]
         ELSE st)

RECURSIVE FillX(_, _, _, _, _, _, _, _, _)
FillX(st, section, d, baseX, baseY, baseZ, x, y, z) ==
    IF x >= 16 \/ st.n < 0 THEN st
    ELSE FillX(FillVoxel(st, section, d, baseX, baseY, baseZ, x, y, z),
               section, d, baseX, baseY, baseZ, x + 1, y, z)

RECURSIVE FillZ(_, _, _, _, _, _, _, _)
FillZ(st, section, d, baseX, baseY, baseZ, y, z) ==
    IF z >= 16 \/ st.n < 0 THEN st
    ELSE FillZ(FillX(st, section, d, baseX, baseY, baseZ, 0, y, z),
               section, d, baseX, baseY, baseZ, y, z + 1)

RECURSIVE FillY(_, _, _, _, _, _, _)
FillY(st, section, d, baseX, baseY, baseZ, y) ==
    IF y >= 16 \/ st.n < 0 THEN st
    ELSE FillY(FillZ(st, section, d, baseX, baseY, baseZ, y, 0),
               section, d, baseX, baseY, baseZ, y + 1)

RECURSIVE FillSections(_, _, _, _, _, _, _)
FillSections(st, sections, d, baseX, baseZ, minSY, sIdx) ==
    IF sIdx >= Len(sections) \/ st.n < 0 THEN st
    ELSE FillSections(
           FillY(st, sections[sIdx + 1], d, baseX, (sIdx - minSY) * 16, baseZ, 0),
           sections, d, baseX, baseZ, minSY, sIdx + 1)

\* adjustBlockEntity gives a block entity unless the id or a coordinate
\* is missing.
BlockEntityKept(te) == te.id # "" /\ te.hasPos

\* adjustEntity gives an entity unless the id or Pos is missing; Convert
\* keeps it when its position relative to the schematic lies inside.
EntityKept(e, b, d) ==
    /\ e.id # "" /\ e.hasPos
    /\ e.x - b.minCX * 16 >= 0 /\ e.x - b.minCX * 16 < d.width
    /\ e.y - b.minSY * 16 >= 0 /\ e.y - b.minSY * 16 < d.height
    /\ e.z - b.minCZ * 16 >= 0 /\ e.z - b.minCZ * 16 < d.length

Count(seq, Keep(_)) == Cardinality({i \in DOMAIN seq : Keep(seq[i])})

\* The chunk loop of Convert from chunk i on.
RECURSIVE FillChunks(_, _, _, _, _)
FillChunks(st, chunks, b, d, i) ==
    IF i > Len(chunks) \/ st.n < 0 THEN st
    ELSE LET c == chunks[i]
             baseX == Sub32(c.X, b.minCX) * 16
             baseZ == Sub32(c.Z, b.minCZ) * 16
             kept(e) == EntityKept(e, b, d)
         IN With(FillSections(st, c.Sections, d, baseX, baseZ, b.minSY, 0),
                 LAMBDA filled :
              FillChunks(
                [s |-> [filled.s EXCEPT
                          !.BlockEntities = @ + Count(c.TileEntities,
                                                      BlockEntityKept),
                          !.Entities = @ + Count(c.Entities, kept)],
                 n |-> filled.n],
                chunks, b, d, i + 1))

ConvResult(kind, s, n) ==
    [done |-> TRUE, kind |-> kind, schem |-> s, TotalBlocks |-> n]

\* Convert.  kind is "no_chunks" or "too_large" for the two errors it
\* returns and "ok" with the schematic.  When a dimension is negative,
\* NewSchematic's make([]uint16, totalBlocks) panics on a negative product
\* (kind "panic"); on a positive product of two negative dimensions it
\* allocates or aborts as memory allows (kind "negative_dims").
Convert(w, iter) ==
    IF Len(w.Chunks) = 0 THEN ConvResult("no_chunks", IdleSchem, 0)
    ELSE
    With(WorldBounds(w.Chunks, 1,
                     [minCX |-> MaxInt32, maxCX |-> MinInt32,
                      minCZ |-> MaxInt32, maxCZ |-> MinInt32,
                      minSY |-> MaxInt32, maxSY |-> MinInt32]), LAMBDA b0 :
    With(IF b0.minSY > b0.maxSY THEN [b0 EXCEPT !.minSY = 0, !.maxSY = 0] ELSE b0,
         LAMBDA b :
      LET width == Times16(ChunkSpan(b.minCX, b.maxCX))
          length == Times16(ChunkSpan(b.minCZ, b.maxCZ))
          height == Times16(ChunkSpan(b.minSY, b.maxSY))
      IN IF width.hi > 0 \/ height.hi > 0 \/ length.hi > 0
         THEN ConvResult("too_large", IdleSchem, 0)
         ELSE IF (width.hi = 0 /\ width.lo = 0) \/ (length.hi = 0 /\ length.lo = 0)
                 \/ (width.hi = 0 /\ length.hi = 0)
         THEN With([width |-> width.hi * 65536 + width.lo,
                    height |-> height.lo,
                    length |-> length.hi * 65536 + length.lo,
                    iter |-> iter], LAMBDA d :
                With(FillChunks(
                       [s |-> [NewSchematic(d.width, d.height, d.length,
                                            w.WorldVersion)
                                 EXCEPT !.Offset = <<-(d.width \div 2), 0,
                                                     -(d.length \div 2)>>],
                        n |-> 0],
                       w.Chunks, b, d, 1), LAMBDA st :
                  ConvResult("ok", st.s, st.n)))
         ELSE IF width.hi < 0 /\ length.hi < 0
         THEN ConvResult("negative_dims", IdleSchem, 0)
         ELSE ConvResult("panic", IdleSchem, 0)))

(***************************************************************************)
(* Specification of Convert: a decoded world, then Convert on it           *)
(***************************************************************************)
MaxSections == 1     \* sections in one chunk of a world handed to Convert

\* The sections a chunk is filled with: one entry (all stone), two
\* entries alternating air and a block with a property, three entries one
\* of which is cave air.
SectionKinds == {1, 2, 3}

KindPalette(k) ==
    CASE k = 1 -> <<BlockStateOf("minecraft:stone")>>
      [] k = 2 -> <<BlockStateOf(Air),
                    [Name |-> "minecraft:oak_stairs",
                     Properties |-> <<(<<"facing", "north">>),
                                      (<<"half", "bottom">>)>>]>>
      [] OTHER -> <<BlockStateOf("minecraft:dirt"),
                    BlockStateOf("minecraft:cave_air"),
                    BlockStateOf("minecraft:stone")>>

\* Section number j of a chunk, of kind k: decoded from its block-states
\* record; kind 1 has no packed array.
KindSection(k, j) ==
    LET pal == KindPalette(k)
        n == Len(pal)
    IN SectionOf(parseBlockStatesNBT(
         [ok |-> TRUE, Palette |-> pal,
          Data |-> IF k = 1 THEN <<>>
                   ELSE PackWords(1 + (j % 2), n, BitsFor(n), 0,
                                  FullLen(BitsFor(n)))]))

\* The chunk coordinates tried: neighbours, a span of 4097 chunks along
\* either axis, and X at the ends and the middle of the int32 range.
ChunkPos == {<<0, 0>>, <<1, 0>>, <<0, 1>>, <<4096, 0>>, <<0, 4096>>,
             <<MinInt32, 0>>, <<MaxInt32 - 1, 0>>, <<MaxInt32, 0>>,
             <<-1073741824, 0>>, <<1073741824, 0>>}

NearOrigin(pos) == pos[1] \in {0, 1} /\ pos[2] \in {0, 1}

\* Tile entities and entities of a chunk near the origin: one complete
\* record and one without an id.
SomeTileEntities == <<[id |-> "minecraft:chest", hasPos |-> TRUE],
                      [id |-> "", hasPos |-> TRUE]>>
SomeEntities(pos) ==
    <<[id |-> "minecraft:pig", hasPos |-> TRUE,
       x |-> pos[1] * 16 + 3, y |-> 5, z |-> pos[2] * 16 + 3],
      [id |-> "minecraft:cow", hasPos |-> TRUE, x |-> -40, y |-> 5, z |-> 0]>>

\* The sections of every kind, decoded once.
KindSections ==
    [k \in SectionKinds |-> [j \in 1..(MaxSections + 1) |-> KindSection(k, j)]]

ChunkOf(pos, n, k) ==
    [X |-> pos[1], Z |-> pos[2],
     Sections |-> [j \in 1..n |-> KindSections[k][j]],
     TileEntities |-> IF NearOrigin(pos) /\ k = 2 THEN SomeTileEntities ELSE <<>>,
     Entities |-> IF NearOrigin(pos) /\ k = 2 THEN SomeEntities(pos) ELSE <<>>]

\* A world's first chunk, and the chunk that may follow it.  Chunks far
\* from the origin have no sections; the chunk at the origin has every
\* number of them, its neighbours none or the most.
SectionCounts(pos) ==
    IF pos = <<0, 0>> THEN 0..MaxSections
    ELSE IF NearOrigin(pos) THEN {0, MaxSections}
    ELSE {0}

FirstChunks ==
    UNION {{ChunkOf(pos, n, k) : n \in SectionCounts(pos), k \in SectionKinds} :
             pos \in ChunkPos}

SecondChunks == {ChunkOf(pos, IF NearOrigin(pos) THEN 1 ELSE 0, 3) : pos \in ChunkPos}

\* The pairs of chunks near the origin: a row along X, a diagonal, a row
\* along Z with the chunks in the opposite order, and twice the same
\* position.
NearPairs == {<<(<<0, 0>>), (<<1, 0>>)>>, <<(<<1, 0>>), (<<0, 1>>)>>,
              <<(<<0, 1>>), (<<0, 0>>)>>, <<(<<0, 0>>), (<<0, 0>>)>>}

\* One section of a 2-entry palette whose packed array holds 64 indices,
\* alternating between the entries, and the world of one chunk with it.
AlternatingSection ==
    SectionOf(parseBlockStatesNBT(
      [ok |-> TRUE,
       Palette |-> <<BlockStateOf("minecraft:stone"), BlockStateOf("minecraft:dirt")>>,
       Data |-> PackWords(1, 2, 4, 0, 4)]))

AlternatingWorld ==
    <<[X |-> 5, Z |-> -3, Sections |-> <<AlternatingSection>>,
       TileEntities |-> <<>>, Entities |-> <<>>]>>

Worlds ==
    {<<>>, AlternatingWorld} \cup {<<a>> : a \in FirstChunks}
    \cup {<<ChunkOf(pq[1], n, 2), ChunkOf(pq[2], 1, 3)>> :
            pq \in NearPairs, n \in {0, MaxSections}}
    \cup {w \in {<<a, b>> : a \in FirstChunks, b \in SecondChunks} :
            ~NearOrigin(<<w[1].X, w[1].Z>>) \/ ~NearOrigin(<<w[2].X, w[2].Z>>)}

ConvertInit ==
    /\ mode = "convert"
    /\ \E cs \in Worlds : world = [WorldVersion |-> 3465, Chunks |-> cs]
    /\ conv = IdleConv
    /\ WriterIdle
    /\ VarintsIdle
    /\ SectionIdle
    /\ ReaderIdle

\* A palette entry of w has several properties.
HasPropertyMaps(w) ==
    \E i \in DOMAIN w.Chunks : \E j \in DOMAIN w.Chunks[i].Sections :
       \E k \in DOMAIN w.Chunks[i].Sections[j].BlockPalette :
          Len(w.Chunks[i].Sections[j].BlockPalette[k].Properties) > 1

\* One call of Convert; the order of map iteration matters only when
\* some map has several keys.
DoConvert ==
    /\ mode = "convert"
    /\ ~conv.done
    /\ \E iter \in IF HasPropertyMaps(world) THEN IterKinds ELSE {"forward"} :
          conv' = Convert(world, iter)
    /\ UNCHANGED <<mode, world, writerVars, varintVars, sectionVars, readerVars>>

SpecConvert == ConvertInit /\ [][DoConvert]_vars

\* max - min + 1 chunks make a dimension above 65535 blocks, told without
\* wrapping.
SpanTooLarge(mn, mx) == IF mn < 0 THEN mx >= mn + 4095 ELSE mx - mn >= 4095

RECURSIVE MinOf(_, _, _)
MinOf(chunks, axis, i) ==
    IF i = Len(chunks) THEN chunks[i][axis]
    ELSE Min(chunks[i][axis], MinOf(chunks, axis, i + 1))

RECURSIVE MaxOf(_, _, _)
MaxOf(chunks, axis, i) ==
    IF i = Len(chunks) THEN chunks[i][axis]
    ELSE LET m == MaxOf(chunks, axis, i + 1)
         IN IF chunks[i][axis] > m THEN chunks[i][axis] ELSE m

BoxTooLarge(w) ==
    /\ Len(w.Chunks) > 0
    /\ \/ SpanTooLarge(MinOf(w.Chunks, "X", 1), MaxOf(w.Chunks, "X", 1))
       \/ SpanTooLarge(MinOf(w.Chunks, "Z", 1), MaxOf(w.Chunks, "Z", 1))

\* C4: every world whose bounding box is wider or longer than 65535 blocks
\* makes Convert return the capacity error, and never a schematic.
C4_CapacityError ==
    (conv.done /\ BoxTooLarge(world)) => conv.kind = "too_large"

\* The capacity error is returned for a world of 4097 chunks in a row.
C4_Witness ==
    /\ conv.done
    /\ BoxTooLarge(world)
    /\ conv.kind = "too_large"

\* The chunks of w lie at pairwise distinct (x, z).
DistinctPositions(w) ==
    \A i, j \in DOMAIN w.Chunks :
       (w.Chunks[i].X = w.Chunks[j].X /\ w.Chunks[i].Z = w.Chunks[j].Z) => i = j

\* The canonical strings of a state: name, or name[k=v,...] with the
\* properties in any order.
StringsOf(bs) ==
    IF Len(bs.Properties) = 0 THEN {bs.Name}
    ELSE {bs.Name \o "[" \o JoinProps([i \in DOMAIN bs.Properties |->
                                          bs.Properties[p[i]]], 1) \o "]" :
            p \in Perms(DOMAIN bs.Properties)}

AirNames == {"minecraft:air", "minecraft:cave_air", "minecraft:void_air"}

\* The chunks of w with a section over the voxel (vx, vy, vz) of the
\* volume whose origin is the chunk (minCX, minCZ).
Covering(w, minCX, minCZ, vx, vy, vz) ==
    {i \in DOMAIN w.Chunks :
       /\ w.Chunks[i].X - minCX = vx \div 16
       /\ w.Chunks[i].Z - minCZ = vz \div 16
       /\ vy \div 16 < Len(w.Chunks[i].Sections)}

\* The strings one of which the voxel must be numbered with.
ExpectedAt(w, minCX, minCZ, vx, vy, vz) ==
    With(Covering(w, minCX, minCZ, vx, vy, vz), LAMBDA cover :
      IF cover = {} THEN {Air}
      ELSE With(GetBlockAt(w.Chunks[CHOOSE i \in cover : TRUE]
                             .Sections[(vy \div 16) + 1],
                           vx % 16, vy % 16, vz % 16), LAMBDA bs :
             IF bs.Name \in AirNames THEN {Air} ELSE StringsOf(bs)))

\* The number of sections of the tallest chunk, 1 when there is none.
RECURSIVE Tallest(_, _)
Tallest(chunks, i) ==
    IF i > Len(chunks) THEN 1
    ELSE With(Tallest(chunks, i + 1), LAMBDA t :
           IF Len(chunks[i].Sections) > t THEN Len(chunks[i].Sections) ELSE t)

VoxelsPreserved(w, s) ==
    With(MinOf(w.Chunks, "X", 1), LAMBDA minCX :
      With(MinOf(w.Chunks, "Z", 1), LAMBDA minCZ :
        /\ s.Width = 16 * (MaxOf(w.Chunks, "X", 1) - minCX + 1)
        /\ s.Length = 16 * (MaxOf(w.Chunks, "Z", 1) - minCZ + 1)
        /\ s.Height = 16 * Tallest(w.Chunks, 1)
        /\ Len(s.blockData) = s.Width * s.Height * s.Length
        /\ \A n1, n2 \in DOMAIN s.Palette :
              s.Palette[n1] = s.Palette[n2] => n1 = n2
        /\ Air \in DOMAIN s.Palette /\ s.Palette[Air] = 0
        /\ \A i \in 0..(Len(s.blockData) - 1) :
              \E name \in ExpectedAt(w, minCX, minCZ, i % s.Width,
                                     i \div (s.Width * s.Length),
                                     (i \div s.Width) % s.Length) :
                 /\ name \in DOMAIN s.Palette
                 /\ s.Palette[name] = s.blockData[i + 1]))

C12_AlternatingConverted ==
    conv.done /\ conv.kind = "ok" /\ world.Chunks = AlternatingWorld

(***************************************************************************)
(* slime/reader.go: the decoder                                            *)
(*                                                                         *)
(* A byte slice d is the sequence of its bytes, 1-based here.  A           *)
(* bytes.Reader over it is r = [pos, log]; log records every read and      *)
(* skip made: what (the words of the error the step is reported with),     *)
(* op, the position at, the byte count n, the value v and whether it       *)
(* succeeded.                                                              *)
(***************************************************************************)
SlimeMagic == 45323
SlimeVersionMin == 12
SlimeVersionMax == 13
FlagPOIChunks == 1
FlagFluidTicks == 2
FlagBlockTicks == 4
LightBytes == 2048

ByteAt(d, p) == IF p < Len(d) THEN d[p + 1] ELSE 0

\* bytes.Reader.Len: the bytes left, none once the position is at or past
\* the end.
ReaderLen(d, r) == IF r.pos >= Len(d) THEN 0 ELSE Len(d) - r.pos

NewReader == [pos |-> 0, log |-> <<>>]

Logged(r, what, op, n, v, ok) ==
    Append(r.log, [what |-> what, op |-> op, at |-> r.pos, n |-> n, v |-> v,
                   ok |-> ok])

\* io.ReadFull of n bytes: short of n bytes it consumes what is left and
\* fails.
ReadFull(d, r, what, n) ==
    LET ok == ReaderLen(d, r) >= n
    IN [r |-> [pos |-> IF ok THEN r.pos + n
                       ELSE IF r.pos >= Len(d) THEN r.pos ELSE Len(d),
               log |-> Logged(r, what, "full", n, 0, ok)],
        ok |-> ok]

\* binary.Read of a big-endian value of n bytes; v is the value at the
\* position, kept on success only.
BinaryRead(d, r, what, n, v) ==
    LET ok == ReaderLen(d, r) >= n
    IN [r |-> [pos |-> IF ok THEN r.pos + n
                       ELSE IF r.pos >= Len(d) THEN r.pos ELSE Len(d),
               log |-> Logged(r, what, "read", n, IF ok THEN v ELSE 0, ok)],
        ok |-> ok,
        v |-> IF ok THEN v ELSE 0]

ReadUint8(d, r, what) == BinaryRead(d, r, what, 1, ByteAt(d, r.pos))

ReadUint16(d, r, what) ==
    BinaryRead(d, r, what, 2, ByteAt(d, r.pos) * 256 + ByteAt(d, r.pos + 1))

\* An int32, and a uint32 as the int32 of the same bits (Convert turns
\* WorldVersion into that int32).
ReadInt32(d, r, what) ==
    LET b0 == ByteAt(d, r.pos)
    IN BinaryRead(d, r, what, 4,
                  (IF b0 >= 128 THEN b0 - 256 ELSE b0) * 16777216
                  + ByteAt(d, r.pos + 1) * 65536 + ByteAt(d, r.pos + 2) * 256
                  + ByteAt(d, r.pos + 3))

\* bytes.Reader.Seek(n, io.SeekCurrent) for n > 0: the new position is
\* not compared with the length, and only a negative one is an error.
Seek(r, what, n) ==
    [pos |-> r.pos + n, log |-> Logged(r, what, "seek", n, 0, TRUE)]

\* skipSizedData
skipSizedData(d, r, what) ==
    With(ReadInt32(d, r, what), LAMBDA size :
      IF ~size.ok THEN [r |-> size.r, ok |-> FALSE]
      ELSE IF size.v > 0 THEN [r |-> Seek(size.r, what, size.v), ok |-> TRUE]
      ELSE [r |-> size.r, ok |-> TRUE])

\* nbt.Unmarshal into map[string]interface{}: the record the library
\* decodes is told by the block's first byte.  0: the library reports an
\* error; 1 and 2: a compound whose one field is a list of compounds;
\* 3: a compound without fields; 4: the fields hold an int, not a list;
\* 5: a list with an item that is not a compound.
Item(id, hasPos) ==
    [isCompound |-> TRUE, id |-> id, hasPos |-> hasPos, x |-> 3, y |-> 5, z |-> 3]

NotACompound ==
    [isCompound |-> FALSE, id |-> "", hasPos |-> FALSE, x |-> 0, y |-> 0, z |-> 0]

ListOf(items) == [isList |-> TRUE, items |-> items]

NotAList == [isList |-> FALSE, items |-> <<>>]

UnmarshalContainer(d, at) ==
    LET code == ByteAt(d, at)
    IN CASE code = 1 ->
              [ok |-> TRUE,
               fields |-> [f \in {"tileEntities"} |->
                             ListOf(<<Item("minecraft:chest", TRUE),
                                      Item("", TRUE)>>)]]
         [] code = 2 ->
              [ok |-> TRUE,
               fields |-> [f \in {"entities"} |->
                             ListOf(<<Item("minecraft:pig", TRUE),
                                      Item("minecraft:cow", FALSE)>>)]]
         [] code = 3 -> [ok |-> TRUE, fields |-> [f \in {} |-> NotAList]]
         [] code = 4 ->
              [ok |-> TRUE,
               fields |-> [f \in {"tileEntities", "entities"} |-> NotAList]]
         [] code = 5 ->
              [ok |-> TRUE,
               fields |-> [f \in {"tileEntities", "entities"} |->
                             ListOf(<<NotACompound,
                                      Item("minecraft:bat", TRUE)>>)]]
         [] OTHER -> [ok |-> FALSE, fields |-> [f \in {} |-> NotAList]]

\* The items of a list that are compounds, in order.
RECURSIVE Compounds(_, _)
Compounds(items, i) ==
    IF i > Len(items) THEN <<>>
    ELSE (IF items[i].isCompound THEN <<items[i]>> ELSE <<>>)
         \o Compounds(items, i + 1)

\* What readNBTListSection makes of the container the library decoded.
ListIn(container, listName) ==
    IF ~container.ok THEN <<>>
    ELSE IF listName \notin DOMAIN container.fields THEN <<>>
    ELSE IF ~container.fields[listName].isList THEN <<>>
    ELSE Compounds(container.fields[listName].items, 1)

\* readNBTListSection that reports the library's error.
readNBTListSection_Strict(d, r, listName, what) ==
    With(ReadInt32(d, r, what), LAMBDA size :
      IF ~size.ok THEN [r |-> size.r, ok |-> FALSE, list |-> <<>>]
      ELSE IF size.v <= 0 THEN [r |-> size.r, ok |-> TRUE, list |-> <<>>]
      ELSE
      With(ReadFull(d, size.r, what, size.v), LAMBDA data :
        IF ~data.ok \/ ~UnmarshalContainer(d, size.r.pos).ok
        THEN [r |-> data.r, ok |-> FALSE, list |-> <<>>]
        ELSE
        With(ListIn(UnmarshalContainer(d, size.r.pos), listName), LAMBDA list :
          [r |-> [data.r EXCEPT !.log =
                    Append(@, [what |-> what, op |-> "list", at |-> size.r.pos,
                               n |-> Len(list), v |-> ByteAt(d, size.r.pos),
                               ok |-> TRUE])],
           ok |-> TRUE, list |-> list])))

\* readNBTListSection; what is the error parseChunk reports it with.  A nil
\* list and an empty one are both <<>>.  The log gets a "list" entry with
\* the block's first byte and the length of the list returned.
readNBTListSection(d, r, listName, what) ==
    With(ReadInt32(d, r, what), LAMBDA size :
      IF ~size.ok THEN [r |-> size.r, ok |-> FALSE, list |-> <<>>]
      ELSE IF size.v <= 0 THEN [r |-> size.r, ok |-> TRUE, list |-> <<>>]
      ELSE
      With(ReadFull(d, size.r, what, size.v), LAMBDA data :
        IF ~data.ok THEN [r |-> data.r, ok |-> FALSE, list |-> <<>>]
        ELSE
        With(ListIn(UnmarshalContainer(d, size.r.pos), listName), LAMBDA list :
          [r |-> [data.r EXCEPT !.log =
                    Append(@, [what |-> what, op |-> "list", at |-> size.r.pos,
                               n |-> Len(list), v |-> ByteAt(d, size.r.pos),
                               ok |-> TRUE])],
           ok |-> TRUE, list |-> list])))

\* nbt.Unmarshal into BlockStatesNBT: the record the library decodes is
\* told by the block's first byte.  1, 2, 3: a palette of that many
\* entries, with all 4096 indices packed when there are several; 4: a
\* compound with neither palette nor data; anything else: the library
\* reports an error.
BlockStatesDocs ==
    [k \in SectionKinds |->
       [ok |-> TRUE, Palette |-> KindPalette(k),
        Data |-> IF k = 1 THEN <<>>
                 ELSE PackWords(1, Len(KindPalette(k)),
                                BitsFor(Len(KindPalette(k))), 0,
                                FullLen(BitsFor(Len(KindPalette(k)))))]]

UnmarshalBlockStates(d, at) ==
    LET code == ByteAt(d, at)
    IN IF code \in SectionKinds THEN BlockStatesDocs[code]
       ELSE [ok |-> code = 4, Palette |-> <<>>, Data |-> <<>>]

\* The zero value of Section.
NoSection == [BlockPalette |-> <<>>, BlockStates |-> <<>>, BitsPerBlock |-> 0]

BitSet(v, mask) == (v \div mask) % 2 = 1

SectionFailed(r, err) == [r |-> r, ok |-> FALSE, section |-> NoSection, err |-> err]

\* parseSection, the light data of a version 13 section, block light
\* skipped before sky light.
skipLight13_BlockFirst(d, r) ==
    With(ReadUint8(d, r, "reading section flags"), LAMBDA flags :
      IF ~flags.ok
      THEN [r |-> flags.r, ok |-> FALSE, err |-> "reading section flags"]
      ELSE LET r1 == IF BitSet(flags.v, 1)
                     THEN Seek(flags.r, "skipping block light", LightBytes)
                     ELSE flags.r
           IN [r |-> IF BitSet(flags.v, 2)
                     THEN Seek(r1, "skipping sky light", LightBytes)
                     ELSE r1,
               ok |-> TRUE, err |-> ""])

\* parseSection, the light data of a version 13 section
skipLight13(d, r) ==
    With(ReadUint8(d, r, "reading section flags"), LAMBDA flags :
      IF ~flags.ok
      THEN [r |-> flags.r, ok |-> FALSE, err |-> "reading section flags"]
      ELSE LET r1 == IF BitSet(flags.v, 2)
                     THEN Seek(flags.r, "skipping sky light", LightBytes)
                     ELSE flags.r
           IN [r |-> IF BitSet(flags.v, 1)
                     THEN Seek(r1, "skipping block light", LightBytes)
                     ELSE r1,
               ok |-> TRUE, err |-> ""])

\* parseSection, the light data of a version 12 section
skipLight12(d, r) ==
    With(ReadUint8(d, r, "reading block light flag"), LAMBDA hasBlockLight :
      IF ~hasBlockLight.ok
      THEN [r |-> hasBlockLight.r, ok |-> FALSE, err |-> "reading block light flag"]
      ELSE
      With(ReadUint8(d, IF hasBlockLight.v # 0
                        THEN Seek(hasBlockLight.r, "skipping block light",
                                  LightBytes)
                        ELSE hasBlockLight.r,
                     "reading sky light flag"), LAMBDA hasSkyLight :
        IF ~hasSkyLight.ok
        THEN [r |-> hasSkyLight.r, ok |-> FALSE, err |-> "reading sky light flag"]
        ELSE [r |-> IF hasSkyLight.v # 0
                    THEN Seek(hasSkyLight.r, "skipping sky light", LightBytes)
                    ELSE hasSkyLight.r,
              ok |-> TRUE, err |-> ""]))

\* parseSection, the block states: the length field and the block
readBlockStates(d, r) ==
    With(ReadInt32(d, r, "reading block states size"), LAMBDA blockStatesSize :
      IF ~blockStatesSize.ok
      THEN SectionFailed(blockStatesSize.r, "reading block states size")
      ELSE IF blockStatesSize.v <= 0
      THEN [r |-> blockStatesSize.r, ok |-> TRUE, section |-> NoSection,
            err |-> ""]
      ELSE
      With(ReadFull(d, blockStatesSize.r, "reading block states data",
                    blockStatesSize.v), LAMBDA data :
        IF ~data.ok THEN SectionFailed(data.r, "reading block states data")
        ELSE
        With(parseBlockStatesNBT(UnmarshalBlockStates(d, blockStatesSize.r.pos)),
             LAMBDA res :
          IF ~res.ok THEN SectionFailed(data.r, "parsing block states NBT")
          ELSE [r |-> data.r, ok |-> TRUE, section |-> SectionOf(res),
                err |-> ""])))

\* parseSection
parseSection(d, r, version) ==
    With(IF version >= 13 THEN skipLight13(d, r) ELSE skipLight12(d, r),
         LAMBDA light :
      IF ~light.ok THEN SectionFailed(light.r, light.err)
      ELSE
      With(readBlockStates(d, light.r), LAMBDA bs :
        IF ~bs.ok THEN bs
        ELSE
        With(ReadInt32(d, bs.r, "reading biomes size"), LAMBDA biomesSize :
          IF ~biomesSize.ok
          THEN SectionFailed(biomesSize.r, "reading biomes size")
          ELSE [bs EXCEPT !.r = IF biomesSize.v > 0
                                THEN Seek(biomesSize.r, "skipping biomes",
                                          biomesSize.v)
                                ELSE biomesSize.r])))

\* The section loop of parseChunk from section i on.
RECURSIVE parseSections(_, _, _, _, _, _)
parseSections(d, r, version, sectionCount, i, sections) ==
    IF i >= sectionCount
    THEN [r |-> r, ok |-> TRUE, sections |-> sections, err |-> ""]
    ELSE With(parseSection(d, r, version), LAMBDA s :
           IF ~s.ok
           THEN [r |-> s.r, ok |-> FALSE, sections |-> sections, err |-> s.err]
           ELSE parseSections(d, s.r, version, sectionCount, i + 1,
                              Append(sections, s.section)))

\* One dataset of parseChunk: read when its bit is set in the world flags.
skipDataset(d, r, worldFlags, flag, what) ==
    IF BitSet(worldFlags, flag) THEN skipSizedData(d, r, what)
    ELSE [r |-> r, ok |-> TRUE]

\* parseChunk, the datasets of the world flags, fluid ticks read before
\* block ticks.
skipDatasets_FluidFirst(d, r, worldFlags) ==
    With(skipDataset(d, r, worldFlags, FlagPOIChunks, "skipping POI chunks"),
         LAMBDA poi :
      IF ~poi.ok THEN [r |-> poi.r, ok |-> FALSE, err |-> "skipping POI chunks"]
      ELSE
      With(skipDataset(d, poi.r, worldFlags, FlagFluidTicks,
                       "skipping fluid ticks"), LAMBDA fluid :
        IF ~fluid.ok
        THEN [r |-> fluid.r, ok |-> FALSE, err |-> "skipping fluid ticks"]
        ELSE
        With(skipDataset(d, fluid.r, worldFlags, FlagBlockTicks,
                         "skipping block ticks"), LAMBDA block :
          [r |-> block.r, ok |-> block.ok,
           err |-> IF block.ok THEN "" ELSE "skipping block ticks"])))

\* parseChunk, the datasets of the world flags: POI chunks, block ticks,
\* fluid ticks.
skipDatasets(d, r, worldFlags) ==
    With(skipDataset(d, r, worldFlags, FlagPOIChunks, "skipping POI chunks"),
         LAMBDA poi :
      IF ~poi.ok THEN [r |-> poi.r, ok |-> FALSE, err |-> "skipping POI chunks"]
      ELSE
      With(skipDataset(d, poi.r, worldFlags, FlagBlockTicks,
                       "skipping block ticks"), LAMBDA block :
        IF ~block.ok
        THEN [r |-> block.r, ok |-> FALSE, err |-> "skipping block ticks"]
        ELSE
        With(skipDataset(d, block.r, worldFlags, FlagFluidTicks,
                         "skipping fluid ticks"), LAMBDA fluid :
          [r |-> fluid.r, ok |-> fluid.ok,
           err |-> IF fluid.ok THEN "" ELSE "skipping fluid ticks"])))

NoChunk == [X |-> 0, Z |-> 0, Sections |-> <<>>, TileEntities |-> <<>>,
            Entities |-> <<>>]

ChunkResult(r, ok, chunk, err) == [r |-> r, ok |-> ok, chunk |-> chunk, err |-> err]

\* parseChunk from the heightmaps on.
parseChunkTail(d, r, worldFlags, chunk) ==
    With(skipSizedData(d, r, "skipping heightmaps"), LAMBDA hm :
      IF ~hm.ok THEN ChunkResult(hm.r, FALSE, chunk, "skipping heightmaps")
      ELSE
      With(skipDatasets(d, hm.r, worldFlags), LAMBDA sets :
        IF ~sets.ok THEN ChunkResult(sets.r, FALSE, chunk, sets.err)
        ELSE
        With(readNBTListSection(d, sets.r, "tileEntities",
                                "reading tile entities"), LAMBDA te :
          IF ~te.ok THEN ChunkResult(te.r, FALSE, chunk, "reading tile entities")
          ELSE
          With(readNBTListSection(d, te.r, "entities", "reading entities"),
               LAMBDA en :
            IF ~en.ok
            THEN ChunkResult(en.r, FALSE,
                             [chunk EXCEPT !.TileEntities = te.list],
                             "reading entities")
            ELSE
            With(skipSizedData(d, en.r, "skipping chunk extra/PDC data"),
                 LAMBDA pdc :
              ChunkResult(pdc.r, pdc.ok,
                          [chunk EXCEPT !.TileEntities = te.list,
                                        !.Entities = en.list],
                          IF pdc.ok THEN ""
                          ELSE "skipping chunk extra/PDC data"))))))

\* parseChunk.  A failure to read X is returned as binary.Read gives it,
\* with no words added.
parseChunk(d, r, worldFlags, version) ==
    With(ReadInt32(d, r, "reading chunk X"), LAMBDA x :
      IF ~x.ok
      THEN ChunkResult(x.r, FALSE, NoChunk,
                       IF ReaderLen(d, r) = 0 THEN "EOF" ELSE "unexpected EOF")
      ELSE
      With(ReadInt32(d, x.r, "reading chunk Z"), LAMBDA z :
        IF ~z.ok
        THEN ChunkResult(z.r, FALSE, [NoChunk EXCEPT !.X = x.v], "reading chunk Z")
        ELSE
        With(ReadInt32(d, z.r, "reading section count"), LAMBDA sectionCount :
          IF ~sectionCount.ok
          THEN ChunkResult(sectionCount.r, FALSE,
                           [NoChunk EXCEPT !.X = x.v, !.Z = z.v],
                           "reading section count")
          ELSE
          With(parseSections(d, sectionCount.r, version, sectionCount.v, 0, <<>>),
               LAMBDA secs :
            IF ~secs.ok
            THEN ChunkResult(secs.r, FALSE,
                             [NoChunk EXCEPT !.X = x.v, !.Z = z.v,
                                             !.Sections = secs.sections],
                             secs.err)
            ELSE parseChunkTail(d, secs.r, worldFlags,
                                [NoChunk EXCEPT !.X = x.v, !.Z = z.v,
                                                !.Sections = secs.sections])))))

NoChunkError == [i |-> -1, chunkCount |-> 0, x |-> 0, z |-> 0, startPos |-> 0,
                 endPos |-> 0, msg |-> ""]

\* The chunk loop of parseChunks from chunk i on.  The log gets a "start"
\* entry where chunk i begins: at is the reader's position there, v the
\* startPos that parseChunks computes.
RECURSIVE parseChunkLoop(_, _, _, _, _, _, _)
parseChunkLoop(d, r, worldFlags, version, chunkCount, i, chunks) ==
    IF i >= chunkCount
    THEN [kind |-> "ok", chunks |-> chunks, err |-> NoChunkError, log |-> r.log]
    ELSE
    With(Len(d) - ReaderLen(d, r), LAMBDA startPos :
      With(parseChunk(d, [r EXCEPT !.log = Logged(r, "chunk", "start", i,
                                                  startPos, TRUE)],
                      worldFlags, version), LAMBDA c :
        IF ~c.ok
        THEN [kind |-> "error", chunks |-> <<>>,
              err |-> [i |-> i, chunkCount |-> chunkCount, x |-> c.chunk.X,
                       z |-> c.chunk.Z, startPos |-> startPos,
                       endPos |-> Len(d) - ReaderLen(d, c.r), msg |-> c.err],
              log |-> c.r.log]
        ELSE parseChunkLoop(d, c.r, worldFlags, version, chunkCount, i + 1,
                            Append(chunks, c.chunk))))

\* parseChunks.  make([]Chunk, 0, chunkCount) panics on a negative count.
parseChunks(d, worldFlags, version) ==
    With(ReadInt32(d, NewReader, "reading chunk count"), LAMBDA chunkCount :
      IF ~chunkCount.ok
      THEN [kind |-> "error", chunks |-> <<>>,
            err |-> [NoChunkError EXCEPT !.msg = "reading chunk count"],
            log |-> chunkCount.r.log]
      ELSE IF chunkCount.v < 0
      THEN [kind |-> "panic", chunks |-> <<>>, err |-> NoChunkError,
            log |-> chunkCount.r.log]
      ELSE parseChunkLoop(d, chunkCount.r, worldFlags, version, chunkCount.v,
                          0, <<>>))

\* decompressZstd on the n bytes at position at of the file: the file's
\* compressed stream decodes as the file says; no bytes decode to no
\* bytes; anything else is not a stream.
decompressZstd(f, at, n) ==
    IF at = f.zstd.at /\ n = f.zstd.n THEN [ok |-> f.zstd.ok, out |-> f.zstd.out]
    ELSE [ok |-> n = 0, out |-> NoBytes]

ReadResult(kind, w, err, cerr, parsed, log, clog) ==
    [done |-> TRUE, kind |-> kind, world |-> w, err |-> err, cerr |-> cerr,
     parsed |-> parsed, log |-> log, clog |-> clog, payload |-> NoBytes]

ReadFailed(err, r) ==
    ReadResult("error", IdleWorld, err, NoChunkError, FALSE, r.log, <<>>)

\* io.CopyN(io.Discard, r, n): the log entry of the copy
CopyN(d, r, n) ==
    With(IF n > 0 THEN n ELSE 0, LAMBDA want :
      Logged(r, "extra data", "copy", Min(want, ReaderLen(d, r)), n,
             ReaderLen(d, r) >= want))

\* ReadSlimeWorld, the trailer, with a missing length field reported
readTrailer_Strict(f, r, w, clog) ==
    With(ReadInt32(f.bytes, r, "compressed extra size"), LAMBDA compExtraSize :
      IF ~compExtraSize.ok
      THEN ReadResult("error", IdleWorld, "compressed extra size", NoChunkError,
                      TRUE, compExtraSize.r.log, clog)
      ELSE
      With(ReadInt32(f.bytes, compExtraSize.r, "uncompressed extra size"),
           LAMBDA uncompExtraSize :
        IF ~uncompExtraSize.ok
        THEN ReadResult("error", IdleWorld, "uncompressed extra size",
                        NoChunkError, TRUE, uncompExtraSize.r.log, clog)
        ELSE ReadResult("world", w, "", NoChunkError, TRUE,
                        CopyN(f.bytes, uncompExtraSize.r, compExtraSize.v), clog)))

\* ReadSlimeWorld, the trailer: whatever the three reads meet, the world
\* is returned.
readTrailer(f, r, w, clog) ==
    With(ReadInt32(f.bytes, r, "compressed extra size"), LAMBDA compExtraSize :
      IF ~compExtraSize.ok
      THEN ReadResult("world", w, "", NoChunkError, TRUE, compExtraSize.r.log, clog)
      ELSE
      With(ReadInt32(f.bytes, compExtraSize.r, "uncompressed extra size"),
           LAMBDA uncompExtraSize :
        IF ~uncompExtraSize.ok
        THEN ReadResult("world", w, "", NoChunkError, TRUE,
                        uncompExtraSize.r.log, clog)
        ELSE ReadResult("world", w, "", NoChunkError, TRUE,
                        CopyN(f.bytes, uncompExtraSize.r, compExtraSize.v), clog)))

\* The payload handed to parseChunks whatever its length.
readPayload_Unsized(f, r, z, uncompChunksSize, version, worldVersion, worldFlags) ==
    IF ~z.ok THEN ReadFailed("decompressing chunks", r)
    ELSE
    With(parseChunks(z.out, worldFlags, version), LAMBDA p :
      [(IF p.kind = "ok"
        THEN readTrailer(f, r,
                         [WorldVersion |-> worldVersion, Chunks |-> p.chunks],
                         p.log)
        ELSE ReadResult(p.kind, IdleWorld,
                        IF p.kind = "error" THEN "parsing chunks" ELSE "",
                        p.err, TRUE, r.log, p.log))
         EXCEPT !.payload = z.out])

\* ReadSlimeWorld from the decompressed payload on; payload is what
\* parseChunks was given.
readPayload(f, r, z, uncompChunksSize, version, worldVersion, worldFlags) ==
    IF ~z.ok THEN ReadFailed("decompressing chunks", r)
    ELSE IF Len(z.out) # uncompChunksSize
    THEN ReadFailed("chunk data size mismatch", r)
    ELSE
    With(parseChunks(z.out, worldFlags, version), LAMBDA p :
      [(IF p.kind = "ok"
        THEN readTrailer(f, r,
                         [WorldVersion |-> worldVersion, Chunks |-> p.chunks],
                         p.log)
        ELSE ReadResult(p.kind, IdleWorld,
                        IF p.kind = "error" THEN "parsing chunks" ELSE "",
                        p.err, TRUE, r.log, p.log))
         EXCEPT !.payload = z.out])

\* ReadSlimeWorld from the compressed chunks on.  make([]byte,
\* compChunksSize) panics on a negative size.
readChunks(f, r, version, worldVersion, worldFlags) ==
    With(ReadInt32(f.bytes, r, "reading compressed chunks size"),
         LAMBDA compChunksSize :
      IF ~compChunksSize.ok
      THEN ReadFailed("reading compressed chunks size", compChunksSize.r)
      ELSE
      With(ReadInt32(f.bytes, compChunksSize.r,
                     "reading uncompressed chunks size"),
           LAMBDA uncompChunksSize :
        IF ~uncompChunksSize.ok
        THEN ReadFailed("reading uncompressed chunks size", uncompChunksSize.r)
        ELSE IF compChunksSize.v < 0
        THEN [ReadFailed("", uncompChunksSize.r) EXCEPT !.kind = "panic"]
        ELSE
        With(ReadFull(f.bytes, uncompChunksSize.r,
                      "reading compressed chunks data", compChunksSize.v),
             LAMBDA data :
          IF ~data.ok THEN ReadFailed("reading compressed chunks data", data.r)
          ELSE readPayload(f, data.r,
                           decompressZstd(f, uncompChunksSize.r.pos,
                                          compChunksSize.v),
                           uncompChunksSize.v, version, worldVersion,
                           worldFlags))))

\* ReadSlimeWorld
ReadSlimeWorld(f) ==
    With(ReadUint16(f.bytes, NewReader, "reading magic"), LAMBDA magic :
      IF ~magic.ok THEN ReadFailed("reading magic", magic.r)
      ELSE IF magic.v # SlimeMagic THEN ReadFailed("invalid magic", magic.r)
      ELSE
      With(ReadUint8(f.bytes, magic.r, "reading version"), LAMBDA version :
        IF ~version.ok THEN ReadFailed("reading version", version.r)
        ELSE IF version.v < SlimeVersionMin \/ version.v > SlimeVersionMax
        THEN ReadFailed("unsupported slime version", version.r)
        ELSE
        With(ReadInt32(f.bytes, version.r, "reading world version"),
             LAMBDA worldVersion :
          IF ~worldVersion.ok
          THEN ReadFailed("reading world version", worldVersion.r)
          ELSE IF version.v >= 13
          THEN With(ReadUint8(f.bytes, worldVersion.r, "reading world flags"),
                    LAMBDA worldFlags :
                 IF ~worldFlags.ok
                 THEN ReadFailed("reading world flags", worldFlags.r)
                 ELSE readChunks(f, worldFlags.r, version.v, worldVersion.v,
                                 worldFlags.v))
          ELSE readChunks(f, worldVersion.r, version.v, worldVersion.v, 0))))

(***************************************************************************)
(* Specification of GetBlockAt: the sections and the calls                 *)
(*                                                                         *)
(* A section is decoded from a block-states record, with a packed array    *)
(* or without, read from a record of length zero, or built by hand: with   *)
(* 17 palette entries and every width of entry, or with no or one palette  *)
(* entry over a packed array of nonzero indices.                           *)
(***************************************************************************)
SectionInit ==
    /\ mode = "section"
    /\ \/ \E n \in 0..MaxPalette, f \in Fills :
            \E len \in DataLens(BitsFor(n)) :
               /\ sec = SectionOf(parseBlockStatesNBT(
                          [ok |-> TRUE, Palette |-> PaletteOf(n),
                           Data |-> PackWords(f[1], n, BitsFor(n), f[2], len)]))
               /\ secSrc = [kind |-> "decoded", n |-> n, p |-> f[1], pad |-> f[2]]
       \/ \E n \in BigPalettes :
            /\ sec = SectionOf(parseBlockStatesNBT(
                       [ok |-> TRUE, Palette |-> PaletteOf(n), Data |-> <<>>]))
            /\ secSrc = [kind |-> "decoded", n |-> n, p |-> 0, pad |-> 0]
       \/ /\ sec = readBlockStates(<<0, 0, 0, 0>>, NewReader).section
          /\ secSrc = [kind |-> "empty", n |-> 0, p |-> 0, pad |-> 0]
       \/ \E n \in {0, 1}, b \in {0, 4, 5}, f \in Fills :
            /\ sec = [BlockPalette |-> PaletteOf(n),
                      BlockStates |-> PackWords(f[1], 17, 5, f[2], FullLen(5)),
                      BitsPerBlock |-> b]
            /\ secSrc = [kind |-> "degenerate", n |-> 17, p |-> f[1], pad |-> f[2]]
       \/ \E b \in 4..16, n \in {17}, f \in Fills :
            /\ sec = [BlockPalette |-> PaletteOf(n),
                      BlockStates |-> PackWords(f[1], n, b, f[2], FullLen(b)),
                      BitsPerBlock |-> b]
            /\ secSrc = [kind |-> "handmade", n |-> n, p |-> f[1], pad |-> f[2]]
    /\ got = IdleGot
    /\ WriterIdle
    /\ VarintsIdle
    /\ ConvertIdle
    /\ ReaderIdle

\* The local coordinates tried.
QueryX == 0..15
QueryY == {0, 1, 2, 15}
QueryZ == {0, 3, 15}

DoGetBlockAt ==
    /\ mode = "section"
    /\ ~got.done
    /\ \E x \in QueryX, y \in QueryY, z \in QueryZ :
          got' = [done |-> TRUE, x |-> x, y |-> y, z |-> z,
                  bs |-> GetBlockAt(sec, x, y, z)]
    /\ UNCHANGED <<mode, sec, secSrc, writerVars, varintVars, convertVars, readerVars>>

SpecSection == SectionInit /\ [][DoGetBlockAt]_vars

\* The linear position of the last call, and the word it falls in.
GotPos == got.y * 256 + got.z * 16 + got.x
GotWord == GotPos \div (64 \div sec.BitsPerBlock)

\* C2: for every bits-per-entry b in 4..16, every palette of at least 2
\* entries and every sequence of indices packed floor(64/b) to a word
\* without spanning, GetBlockAt(x,y,z) returns the palette entry whose
\* index was packed at linear position y*256 + z*16 + x, whatever the
\* word's top bit and padding bits are.
C2_UnpackReturnsPacked ==
    (/\ got.done
     /\ secSrc.kind \in {"decoded", "handmade"}
     /\ Len(sec.BlockPalette) >= 2
     /\ GotWord < Len(sec.BlockStates))
    => got.bs = sec.BlockPalette[
                   PatternIdx(secSrc.p, secSrc.n, sec.BitsPerBlock, GotPos) + 1]

\* C2 witness: (1,2,3) was read, at position 561, from a word whose top
\* bit is set, and gave an entry other than the first.
C2_Witness ==
    /\ got.done
    /\ got.x = 1 /\ got.y = 2 /\ got.z = 3
    /\ GotPos = 561
    /\ Len(sec.BlockPalette) >= 2
    /\ GotWord < Len(sec.BlockStates)
    /\ Bit(sec.BlockStates[GotWord + 1], 63) = 1
    /\ got.bs # sec.BlockPalette[1]

\* C3: on a section produced by the decoder GetBlockAt never fails for
\* x, y, z in 0..15, and when the word index is at or past the end of the
\* packed array the result is the first palette entry.
C3_NeverFails ==
    (got.done /\ secSrc.kind \in {"decoded", "empty"}) =>
        /\ got.bs # Panic
        /\ (Len(sec.BlockPalette) >= 1 /\ GotWord >= Len(sec.BlockStates))
              => got.bs = sec.BlockPalette[1]

\* C3 witness: a decoded section of several palette entries whose packed
\* array stops after one word was read past that word.
C3_Witness ==
    /\ got.done
    /\ secSrc.kind = "decoded"
    /\ Len(sec.BlockPalette) >= 2
    /\ Len(sec.BlockStates) = 1
    /\ GotWord >= 1
    /\ got.bs = sec.BlockPalette[1]

\* The least b with 2^b >= n: ceil(log2(n)) for n >= 1.
CeilLog2(n) == CHOOSE b \in 0..30 : 2 ^ b >= n /\ (b = 0 \/ 2 ^ (b - 1) < n)

C15_DegeneratePalettes ==
    /\ secSrc.kind = "empty" =>
          sec.BlockPalette = <<>> /\ sec.BlockStates = <<>>
    /\ (got.done /\ Len(sec.BlockPalette) = 0) =>
          got.bs = [Name |-> "minecraft:air", Properties |-> <<>>]
    /\ (got.done /\ Len(sec.BlockPalette) = 1) =>
          got.bs = sec.BlockPalette[1]

\* The sole entry was returned at a position where the packed array
\* holds another index.
C15_Witness ==
    /\ got.done
    /\ secSrc.kind = "degenerate"
    /\ Len(sec.BlockPalette) = 1
    /\ Len(sec.BlockStates) = FullLen(5)
    /\ PatternIdx(secSrc.p, 17, 5, GotPos) > 0
    /\ got.bs = sec.BlockPalette[1]

\* The section of a zero-length record was read.
C15_EmptyRead == got.done /\ secSrc.kind = "empty" /\ got.bs.Name = Air

(***************************************************************************)
(* Specification of the decoder: a file, then ReadSlimeWorld on it         *)
(***************************************************************************)
MaxChunks == 2       \* chunks in the payload of a file handed to the decoder

Uint8(v) == <<v>>

Int32(v) ==
    <<(v \div 16777216) % 256, (v \div 65536) % 256, (v \div 256) % 256, v % 256>>

Zeros(n) == [i \in 1..n |-> 0]

\* A length field and that many bytes, the first of them code.
Block(size, code) ==
    IF size <= 0 THEN Int32(size)
    ELSE Int32(size) \o Uint8(code) \o Zeros(size - 1)

\* The first n bytes of d.
Truncate(d, n) == SubSeq(d, 1, n)

\* The sizes the datasets of a chunk are written with.
HeightmapsSize == 3
POISize == 5
BlockTicksSize == 7
FluidTicksSize == 11
PDCSize == 2
BiomesSize == 6
NBTSize == 9

\* A section as a file of the version holds it.  s = [light, bs]: light
\* has bit 1 for block light and bit 2 for sky light; bs is the first byte
\* of the block-states block, 0 for a block of length zero.
SectionBytes(version, s) ==
    LET sky == IF BitSet(s.light, 2) THEN Zeros(LightBytes) ELSE <<>>
        block == IF BitSet(s.light, 1) THEN Zeros(LightBytes) ELSE <<>>
        light == IF version >= 13 THEN Uint8(s.light) \o sky \o block
                 ELSE Uint8(IF BitSet(s.light, 1) THEN 2 ELSE 0) \o block
                      \o Uint8(IF BitSet(s.light, 2) THEN 1 ELSE 0) \o sky
    IN light \o Block(IF s.bs = 0 THEN 0 ELSE NBTSize, s.bs)
       \o Block(BiomesSize, 0)

RECURSIVE Concat(_, _)
Concat(seqs, i) == IF i > Len(seqs) THEN <<>> ELSE seqs[i] \o Concat(seqs, i + 1)

\* A chunk as a file with these world flags holds it.  c = [x, z, secs,
\* te, en]: te and en are [size, code] of the two list blocks.
ChunkBytes(version, flags, c) ==
    Int32(c.x) \o Int32(c.z) \o Int32(Len(c.secs))
    \o Concat([i \in 1..Len(c.secs) |-> SectionBytes(version, c.secs[i])], 1)
    \o Block(HeightmapsSize, 0)
    \o (IF BitSet(flags, FlagPOIChunks) THEN Block(POISize, 0) ELSE <<>>)
    \o (IF BitSet(flags, FlagBlockTicks) THEN Block(BlockTicksSize, 0) ELSE <<>>)
    \o (IF BitSet(flags, FlagFluidTicks) THEN Block(FluidTicksSize, 0) ELSE <<>>)
    \o Block(c.te.size, c.te.code)
    \o Block(c.en.size, c.en.code)
    \o Block(PDCSize, 0)

\* The chunk payload: the chunk count, then the chunks.
Payload(version, flags, chunks) ==
    Int32(Len(chunks))
    \o Concat([i \in 1..Len(chunks) |-> ChunkBytes(version, flags, chunks[i])], 1)

\* The compressed stream of a file takes this many bytes.
StreamSize == 10

\* What follows the compressed chunks: nothing, the first length field
\* only, both length fields and none, some or all of the 6 bytes they
\* declare, and a negative length.
Trailers == {"none", "comp", "sizes", "short", "full", "negative"}

Trailer(t) ==
    CASE t = "none" -> <<>>
      [] t = "comp" -> Int32(6)
      [] t = "sizes" -> Int32(6) \o Int32(60)
      [] t = "short" -> Int32(6) \o Int32(60) \o Zeros(3)
      [] t = "full" -> Int32(6) \o Int32(60) \o Zeros(6)
      [] OTHER -> Int32(-1) \o Int32(60)

\* A file: h = [magic, version, flags, comp, uncomp, ok] are the header
\* fields and whether the stream decompresses; the flags byte is written
\* for version 13 and above.
File(h, payload, t) ==
    LET head == Uint8(h.magic \div 256) \o Uint8(h.magic % 256)
                \o Uint8(h.version) \o Int32(3465)
                \o (IF h.version >= 13 THEN Uint8(h.flags) ELSE <<>>)
                \o Int32(h.comp) \o Int32(h.uncomp)
    IN [bytes |-> head \o Uint8(40) \o Zeros(StreamSize - 1) \o Trailer(t),
        zstd |-> [at |-> Len(head), n |-> StreamSize, ok |-> h.ok,
                  out |-> payload]]

Header(version, flags, payload) ==
    [magic |-> SlimeMagic, version |-> version, flags |-> flags,
     comp |-> StreamSize, uncomp |-> Len(payload), ok |-> TRUE]

GoodFile(version, flags, payload, t) ==
    File(Header(version, flags, payload), payload, t)

VersionFlags == {<<12, 0>>} \cup {<<13, fl>> : fl \in 0..7}

List(size, code) == [size |-> size, code |-> code]

PlainChunk(i) ==
    [x |-> i, z |-> -i, secs |-> <<>>, te |-> List(NBTSize, 1),
     en |-> List(NBTSize, 2)]

\* Payloads of n plain chunks, whole and cut at every length.
PlainFiles(maxChunks) ==
    {GoodFile(vf[1], vf[2],
              Payload(vf[1], vf[2], [i \in 1..n |-> PlainChunk(i)]), "none") :
       vf \in VersionFlags, n \in 0..maxChunks}
    \cup
    UNION {LET p == Payload(vf[1], vf[2], [i \in 1..maxChunks |-> PlainChunk(i)])
           IN {GoodFile(vf[1], vf[2], Truncate(p, n), "none") : n \in 0..(Len(p) - 1)} :
             vf \in VersionFlags}

\* One chunk of two sections, the first with every choice of light data
\* and block states; whole, and cut near either end.
LightChoices == {0, 1, 2, 3, 6}
BlockStatesChoices == {0, 1, 2, 3, 4, 9}

SectionChunk(light, bs) ==
    [x |-> 7, z |-> -7,
     secs |-> <<[light |-> light, bs |-> bs], [light |-> 0, bs |-> 1]>>,
     te |-> List(0, 0), en |-> List(0, 0)]

SectionFiles ==
    {GoodFile(v, 0, Payload(v, 0, <<SectionChunk(l, b)>>), "none") :
       v \in {12, 13}, l \in LightChoices, b \in BlockStatesChoices}
    \cup
    UNION {LET p == Payload(v, 0, <<SectionChunk(3, 2)>>)
           IN {GoodFile(v, 0, Truncate(p, n), "none") :
                 n \in 16..30 \cup (Len(p) - 70)..(Len(p) - 1)} :
             v \in {12, 13}}

\* One chunk with every choice of the two list blocks.
ListChoices == {List(0, 0), List(-1, 0)} \cup {List(NBTSize, c) : c \in 0..5}

ListFiles ==
    {GoodFile(13, 0,
              Payload(13, 0, <<[x |-> 1, z |-> 2, secs |-> <<>>, te |-> te,
                                en |-> en]>>), "none") :
       te \in ListChoices, en \in ListChoices}

\* A decodable payload followed by every trailer.
TrailerFiles ==
    {GoodFile(v, 0, Payload(v, 0, <<PlainChunk(1)>>), t) :
       v \in {12, 13}, t \in Trailers}

\* Files whose header is wrong or cut short.
HeaderFiles ==
    LET p == Payload(13, 0, <<PlainChunk(1)>>)
        h == Header(13, 0, p)
    IN {File([h EXCEPT !.magic = 45322], p, "none"),
        File([h EXCEPT !.version = 11], p, "none"),
        File([h EXCEPT !.version = 14], p, "none"),
        File([h EXCEPT !.uncomp = Len(p) + 1], p, "none"),
        File([h EXCEPT !.uncomp = Len(p) - 1], p, "full"),
        File([h EXCEPT !.version = 12, !.uncomp = 0], p, "none"),
        File([h EXCEPT !.ok = FALSE], p, "none"),
        File([h EXCEPT !.comp = -1], p, "none"),
        File([h EXCEPT !.comp = 0, !.uncomp = 0], p, "none"),
        File([h EXCEPT !.comp = StreamSize + 1], p, "none")}
       \cup {LET f == File(h, p, "none")
             IN [bytes |-> Truncate(f.bytes, n), zstd |-> f.zstd] : n \in 0..25}
       \cup {File(Header(13, 0, q), q, "none") :
               q \in {Int32(-1), Int32(MinInt32)}}

\* One chunk whose section count or whose block lengths are negative: the
\* count alone, the lengths of the chunk's blocks, and the lengths of the
\* two blocks of a section.
NegativeFiles ==
    {GoodFile(13, 0, q, "none") :
       q \in {Int32(1) \o Int32(1) \o Int32(2) \o Int32(c)
                \o Block(HeightmapsSize, 0) \o Int32(0) \o Int32(0)
                \o Block(PDCSize, 0) : c \in {-1, MinInt32}}
             \cup
             {Int32(1) \o Int32(1) \o Int32(2) \o Int32(0)
                \o Int32(n) \o Int32(n) \o Int32(n) \o Int32(n) :
                n \in {-1, MinInt32}}
             \cup
             {Int32(1) \o Int32(1) \o Int32(2) \o Int32(1)
                \o Uint8(0) \o Int32(n) \o Int32(n)
                \o Block(HeightmapsSize, 0) \o Int32(0) \o Int32(0)
                \o Block(PDCSize, 0) : n \in {-1, MinInt32}}}

Files(maxChunks) ==
    PlainFiles(maxChunks) \cup SectionFiles \cup ListFiles \cup TrailerFiles
    \cup HeaderFiles \cup NegativeFiles

ReaderInit ==
    /\ mode = "reader"
    /\ file \in Files(MaxChunks)
    /\ rd = IdleRd
    /\ WriterIdle
    /\ VarintsIdle
    /\ SectionIdle
    /\ ConvertIdle

DoReadSlimeWorld ==
    /\ mode = "reader"
    /\ ~rd.done
    /\ rd' = ReadSlimeWorld(file)
    /\ UNCHANGED <<mode, file, writerVars, varintVars, sectionVars, convertVars>>

SpecReader == ReaderInit /\ [][DoReadSlimeWorld]_vars

(***************************************************************************)
(* Properties of the decoder                                               *)
(***************************************************************************)
\* The version and world-flags bytes of the file, and the payload that
\* parseChunks was given.
FileVersion == file.bytes[3]
FileFlags == IF FileVersion >= 13 THEN file.bytes[8] ELSE 0
ChunkPayload == rd.payload

\* Log entry k-1 ended where entry k begins.
Follows(log, k) ==
    log[k].at = log[k - 1].at + (IF log[k - 1].op = "read" THEN log[k - 1].n
                                 ELSE IF log[k - 1].op = "seek" THEN log[k - 1].n
                                 ELSE IF log[k - 1].op = "full" THEN log[k - 1].n
                                 ELSE 0)

\* The last entry before k that is reported with the words what.
LastBefore(log, k, what) ==
    CHOOSE j \in 0..(k - 1) :
      /\ j > 0 => log[j].what = what
      /\ \A m \in (j + 1)..(k - 1) : log[m].what # what

Whats(log, from, to) == [m \in 1..(to - from + 1) |-> log[from + m - 1].what]

ExpectedDatasets(version, flags) ==
    (IF version >= 13 /\ BitSet(flags, 1) THEN <<"skipping POI chunks">> ELSE <<>>)
    \o (IF version >= 13 /\ BitSet(flags, 4) THEN <<"skipping block ticks">> ELSE <<>>)
    \o (IF version >= 13 /\ BitSet(flags, 2) THEN <<"skipping fluid ticks">> ELSE <<>>)

WrittenSize(what) ==
    CASE what = "skipping POI chunks" -> POISize
      [] what = "skipping block ticks" -> BlockTicksSize
      [] what = "skipping fluid ticks" -> FluidTicksSize
      [] OTHER -> 0

IsRead(e) == e.op = "read"

\* Between the heightmaps and the tile entities of a chunk, the length
\* fields read are those of the datasets whose bit is set, in the order
\* POI, block ticks, fluid ticks, each finding the length its dataset was
\* written with, and the tile entities begin where the last of them ends.
DatasetsInOrder(log, k) ==
    LET h == LastBefore(log, k, "skipping heightmaps")
        reads == SelectSeq(SubSeq(log, h + 1, k - 1), IsRead)
    IN /\ h > 0
       /\ Whats(reads, 1, Len(reads)) = ExpectedDatasets(FileVersion, FileFlags)
       /\ \A m \in 1..Len(reads) : reads[m].v = WrittenSize(reads[m].what)
       /\ \A m \in (h + 1)..(k - 1) : WrittenSize(log[m].what) > 0
       /\ \A m \in (h + 1)..k : Follows(log, m)

\* C6: in every chunk the datasets are read after the heightmaps in the
\* order POI, block ticks, fluid ticks, each if and only if its bit is set
\* in the world flags (none for a version 12 file), and the tile-entity
\* block starts at the byte right after the last dataset read.
C6_DatasetOrder ==
    (rd.done /\ rd.parsed) =>
       \A k \in 1..Len(rd.clog) :
          (rd.clog[k].what = "reading tile entities" /\ rd.clog[k].op = "read")
             => DatasetsInOrder(rd.clog, k)

\* A version 13 file with all three flags set decodes to its chunks.
C6_Witness ==
    /\ rd.done
    /\ rd.kind = "world"
    /\ FileVersion = 13
    /\ FileFlags = 7
    /\ Len(rd.world.Chunks) > 1
    /\ \E k \in 1..Len(rd.clog) : rd.clog[k].what = "skipping block ticks"

\* The light data of the section whose block-states length is read at
\* entry k, version 13: the flags byte, sky light if bit 2, block light if
\* bit 1.
Light13(log, k) ==
    LET j == LastBefore(log, k, "reading section flags")
    IN /\ j > 0
       /\ log[j].op = "read" /\ log[j].n = 1
       /\ Whats(log, j + 1, k - 1) =
            (IF BitSet(log[j].v, 2) THEN <<"skipping sky light">> ELSE <<>>)
            \o (IF BitSet(log[j].v, 1) THEN <<"skipping block light">> ELSE <<>>)
       /\ \A m \in (j + 1)..(k - 1) : log[m].op = "seek" /\ log[m].n = 2048
       /\ \A m \in (j + 1)..k : Follows(log, m)

\* The same for version 12: the block-light flag and its data, then the
\* sky-light flag and its data.
Light12(log, k) ==
    LET j == LastBefore(log, k, "reading block light flag")
        s == LastBefore(log, k, "reading sky light flag")
    IN /\ j > 0 /\ s > j
       /\ log[j].op = "read" /\ log[j].n = 1
       /\ log[s].op = "read" /\ log[s].n = 1
       /\ Whats(log, j + 1, s - 1) =
            (IF log[j].v # 0 THEN <<"skipping block light">> ELSE <<>>)
       /\ Whats(log, s + 1, k - 1) =
            (IF log[s].v # 0 THEN <<"skipping sky light">> ELSE <<>>)
       /\ \A m \in ((j + 1)..(k - 1)) \ {s} : log[m].op = "seek" /\ log[m].n = 2048
       /\ \A m \in (j + 1)..k : Follows(log, m)

\* C9: before the block-states length of a section is read, version 13
\* reads one flags byte and skips 2048 bytes of sky light if bit 2 is set,
\* then 2048 bytes of block light if bit 1 is set; version 12 reads the
\* block-light flag and skips 2048 bytes iff it is nonzero, then the same
\* for the sky-light flag; the length is read right after the last skip.
C9_LightSkipped ==
    (rd.done /\ rd.parsed) =>
       \A k \in 1..Len(rd.clog) :
          rd.clog[k].what = "reading block states size"
             => IF FileVersion >= 13 THEN Light13(rd.clog, k)
                ELSE Light12(rd.clog, k)

\* A version 13 section with both light blocks decodes.
C9_Witness ==
    /\ rd.done
    /\ rd.kind = "world"
    /\ FileVersion = 13
    /\ \E k \in 1..Len(rd.clog) :
          /\ rd.clog[k].what = "reading section flags"
          /\ rd.clog[k].v = 3
    /\ Len(rd.world.Chunks[1].Sections[1].BlockPalette) = 2

\* Entry k of the log is the length field of a list block, read with a
\* positive value.
ListBlockAt(log, k) ==
    /\ log[k].what \in {"reading tile entities", "reading entities"}
    /\ log[k].op = "read"
    /\ log[k].ok
    /\ log[k].v > 0

ListNameAt(log, k) ==
    IF log[k].what = "reading tile entities" THEN "tileEntities" ELSE "entities"

\* The payload ends before the bytes the length field declares.
CutShort(log, k) == log[k].at + 4 + log[k].v > Len(ChunkPayload)

\* The block is malformed, or lacks the list field or its shape.
BadRecord(log, k) ==
    ListIn(UnmarshalContainer(ChunkPayload, log[k].at + 4), ListNameAt(log, k)) = <<>>

\* The call returned an empty list and decoding went on to the next
\* field, right after the block.
Degraded(log, k) ==
    /\ Len(log) >= k + 3
    /\ log[k + 1].op = "full" /\ log[k + 1].ok
    /\ log[k + 2].op = "list" /\ log[k + 2].n = 0
    /\ log[k + 3].op = "read"
    /\ log[k + 3].at = log[k].at + 4 + log[k].v
    /\ log[k + 3].what = IF log[k].what = "reading tile entities"
                         THEN "reading entities"
                         ELSE "skipping chunk extra/PDC data"

\* C5 as stated: readNBTListSection never fails the chunk for a bad
\* tile-entity or entity block; whenever the block is malformed, cut short
\* or lacks the list field or its shape, it returns an empty list and
\* chunk decoding continues with the next field.
C5_NeverFailsChunk ==
    (rd.done /\ rd.parsed) =>
       \A k \in 1..Len(rd.clog) :
          (ListBlockAt(rd.clog, k)
           /\ (CutShort(rd.clog, k) \/ BadRecord(rd.clog, k)))
             => Degraded(rd.clog, k)

\* C5: when the bytes that the length field declares are all in the
\* payload, a block that is malformed or lacks the list field or its shape
\* gives an empty list and no error, and chunk decoding continues with the
\* next field.
C5_ParseErrorsDegrade ==
    (rd.done /\ rd.parsed) =>
       \A k \in 1..Len(rd.clog) :
          (ListBlockAt(rd.clog, k) /\ ~CutShort(rd.clog, k)
           /\ BadRecord(rd.clog, k))
             => Degraded(rd.clog, k)

\* A chunk whose tile-entity block is malformed is decoded, with no tile
\* entities.
C5_Witness ==
    /\ rd.done
    /\ rd.kind = "world"
    /\ \E k \in 1..Len(rd.clog) :
          /\ rd.clog[k].what = "reading tile entities"
          /\ rd.clog[k].op = "list"
          /\ rd.clog[k].v = 0
          /\ rd.clog[k].n = 0
    /\ rd.world.Chunks[1].TileEntities = <<>>
    /\ rd.world.Chunks[1].Entities # <<>>

\* C7: once the chunk list has been parsed, ReadSlimeWorld returns the
\* world with the parsed chunks and no error, whatever follows the
\* compressed chunks in the file.
C7_TrailerTolerated ==
    (/\ rd.done
     /\ rd.parsed
     /\ parseChunks(ChunkPayload, FileFlags, FileVersion).kind = "ok")
       => /\ rd.kind = "world"
          /\ rd.err = ""
          /\ rd.world.Chunks = parseChunks(ChunkPayload, FileFlags, FileVersion).chunks

\* A world with a chunk is returned from a file that ends inside its
\* trailer.
C7_Witness ==
    /\ rd.done
    /\ rd.kind = "world"
    /\ Len(rd.world.Chunks) > 0
    /\ rd.log[Len(rd.log)].op = "copy"
    /\ ~rd.log[Len(rd.log)].ok

\* C8: when decoding of chunk i fails, no world is returned and the error
\* carries i, the chunk's x and z when they had been read, and the offsets
\* at which the chunk started and failed, with start <= failure <= payload
\* length and start equal to the offset just after chunk i-1.
C8_ChunkErrorContext ==
    (rd.done /\ rd.parsed /\ rd.cerr.i >= 0) =>
       LET log == rd.clog
           s == LastBefore(log, Len(log) + 1, "chunk")
           readX == Len(log) > s /\ log[s + 1].ok
           readZ == Len(log) > s + 1 /\ log[s + 2].ok
       IN /\ rd.kind = "error"
          /\ rd.world = IdleWorld
          /\ s > 0
          /\ rd.cerr.i = log[s].n
          /\ readX => rd.cerr.x = log[s + 1].v
          /\ (readX /\ readZ) => rd.cerr.z = log[s + 2].v
          /\ rd.cerr.startPos <= rd.cerr.endPos
          /\ rd.cerr.endPos <= Len(ChunkPayload)
          /\ rd.cerr.startPos = log[s].at

\* The offsets of the error lie in the payload, in order.
C8_WithinPayload ==
    (rd.done /\ rd.parsed /\ rd.cerr.i >= 0) =>
       /\ rd.kind = "error"
       /\ rd.cerr.startPos <= rd.cerr.endPos
       /\ rd.cerr.endPos <= Len(ChunkPayload)

(***************************************************************************)
(* Properties of Save's release of the index buffer                        *)
(***************************************************************************)
\* The positions in log of the events of kind k.
EventsOf(log, k) == {i \in DOMAIN log : log[i].k = k}

\* Position in log of the header of the Data byte array (0: none).
DataAt(log) ==
    LET S == {i \in DOMAIN log :
                log[i].k = "tag" /\ log[i].t = tagByteArray /\ log[i].n = "Data"}
    IN IF S = {} THEN 0 ELSE CHOOSE i \in S : \A j \in S : i <= j

\* The bytes of the raw writes log[from..to], concatenated.
RECURSIVE RawBetween(_, _, _)
RawBetween(log, from, to) ==
    IF from > to THEN <<>> ELSE log[from].b \o RawBetween(log, from + 1, to)

\* In the log of a Save, blockData is released once, right after the last
\* write of the Data array, whose length field is the number of bytes
\* streamed; everything written after the release is the BlockEntities
\* list, the Entities list and the three closing end markers.
ReleasedAfterData(log, blockEntities, entities) ==
    LET d == DataAt(log)
        free == EventsOf(log, "free")
        f == CHOOSE i \in free : TRUE
        later == [i \in 1..(Len(log) - f) |-> <<log[f + i].t, log[f + i].n>>]
    IN /\ d > 0
       /\ Cardinality(free) = 1
       /\ f >= d + 2
       /\ log[d + 1].k = "be"
       /\ \A i \in (d + 2)..(f - 1) : log[i].k = "raw" /\ log[i].t = tagByteArray
       /\ Len(RawBetween(log, d + 2, f - 1)) = log[d + 1].v
       /\ \A i \in (f + 1)..Len(log) : log[i].k = "raw"
       /\ later = (IF blockEntities > 0 THEN <<(<<tagCompound, "BlockEntities">>)>>
                   ELSE <<>>)
                  \o <<(<<tagEnd, "">>)>>
                  \o (IF entities > 0 THEN <<(<<tagCompound, "Entities">>)>>
                      ELSE <<>>)
                  \o <<(<<tagEnd, "">>), (<<tagEnd, "">>)>>

\* C11: Save releases the index buffer right after the Data array has been
\* streamed in full and before BlockEntities, Entities and the closing end
\* markers are written; from then on no SetBlock call changes the palette
\* or the index data.
C11_ReleasedThenFrozen ==
    /\ [](saved.done =>
            /\ ReleasedAfterData(saved.log, schem.BlockEntities, schem.Entities)
            /\ schem.blockData = <<>>)
    /\ [][saved.done => /\ schem'.Palette = schem.Palette
                        /\ schem'.blockData = schem.blockData]_vars

\* SetBlock was called with a string new to the palette after a Save that
\* streamed a volume with block entities and entities.
C11_Witness ==
    /\ saved.done
    /\ Len(saved.data) > 1
    /\ schem.BlockEntities > 0
    /\ schem.Entities > 0
    /\ passed \ saved.passed # {}
    /\ passed \ DOMAIN schem.Palette # {}

(***************************************************************************)
(* Properties of the decoder: format errors                                *)
(***************************************************************************)
\* The big-endian int32 in the 4 bytes of the file from position p on.
FieldAt(p) ==
    (IF file.bytes[p + 1] >= 128 THEN file.bytes[p + 1] - 256
     ELSE file.bytes[p + 1]) * 16777216
    + file.bytes[p + 2] * 65536 + file.bytes[p + 3] * 256 + file.bytes[p + 4]

\* The file's magic is there and wrong.
WrongMagic ==
    Len(file.bytes) >= 2 /\ file.bytes[1] * 256 + file.bytes[2] # 45323

\* The magic is right and the version byte is there and not 12 or 13.
WrongVersion ==
    /\ Len(file.bytes) >= 3
    /\ ~WrongMagic
    /\ file.bytes[3] \notin {12, 13}

\* Where the two size fields of the compressed chunks begin.
SizesAt == IF file.bytes[3] >= 13 THEN 8 ELSE 7

\* The header is right and whole, the compressed stream is the one the
\* file holds and decompresses, to a length other than the declared one.
WrongLength ==
    /\ Len(file.bytes) >= 3
    /\ ~WrongMagic
    /\ ~WrongVersion
    /\ Len(file.bytes) >= SizesAt + 8
    /\ file.zstd.ok
    /\ file.zstd.at = SizesAt + 8
    /\ FieldAt(SizesAt) = file.zstd.n
    /\ Len(file.bytes) >= SizesAt + 8 + file.zstd.n
    /\ FieldAt(SizesAt + 4) # Len(file.zstd.out)

\* C16: a wrong magic, a version byte other than 12 and 13 and a
\* decompressed payload whose length is not the declared one each make
\* ReadSlimeWorld return an error and no world, without parsing a chunk.
C16_FormatErrorsFatal ==
    (rd.done /\ (WrongMagic \/ WrongVersion \/ WrongLength)) =>
       /\ rd.kind = "error"
       /\ rd.world = IdleWorld
       /\ ~rd.parsed
       /\ rd.clog = <<>>
       /\ rd.err = (IF WrongMagic THEN "invalid magic"
                    ELSE IF WrongVersion THEN "unsupported slime version"
                    ELSE "chunk data size mismatch")

\* A file whose payload is one byte longer than declared was refused.
C16_Witness ==
    /\ rd.done
    /\ WrongLength
    /\ FieldAt(SizesAt + 4) = Len(file.zstd.out) - 1
    /\ rd.kind = "error"

\* Files with a wrong magic and with the versions 11 and 14 were refused.
C16_HeaderRefused ==
    rd.done /\ rd.kind = "error" /\ (WrongMagic \/ WrongVersion)

(***************************************************************************)
(* Properties of the decoder: totality                                     *)
(***************************************************************************)
\* C17: ReadSlimeWorld ends by returning a world or an error for every
\* file; no size or count read from the file, a negative one included,
\* makes it abort.
C17_Total == rd.done => rd.kind \in {"world", "error"}

\* The chunk count of the payload is there and negative.
NegativeChunkCount ==
    /\ Len(ChunkPayload) >= 4
    /\ ChunkPayload[1] >= 128

\* The compressed size in the header is there and negative.
NegativeCompSize ==
    /\ Len(file.bytes) >= 3
    /\ Len(file.bytes) >= SizesAt + 8
    /\ FieldAt(SizesAt) < 0

\* ReadSlimeWorld aborts on a negative compressed size and on a negative
\* chunk count, and on nothing else.
C17_AbortsOnNegativeSizes ==
    rd.done =>
      (rd.kind = "panic" <=>
         \/ ~WrongMagic /\ ~WrongVersion /\ NegativeCompSize
         \/ NegativeChunkCount)

\* A negative section count and negative block lengths were read and a
\* world returned.
C17_NegativeLengthsRead ==
    /\ rd.done
    /\ rd.kind = "world"
    /\ \E i \in 13..(Len(ChunkPayload) - 3) : ChunkPayload[i] >= 128

\* The abort on a negative compressed size was reached.
C17_CompSizeAbort == rd.done /\ rd.kind = "panic" /\ NegativeCompSize

\* The abort on a negative chunk count was reached.
C17_ChunkCountAbort == rd.done /\ rd.kind = "panic" /\ NegativeChunkCount

(***************************************************************************)
(* Properties of the decoder: skipped blocks                               *)
(***************************************************************************)
\* The skips of the log that run past the end of the payload.
SkipsPastEnd(log) ==
    {k \in DOMAIN log :
       log[k].op = "seek" /\ log[k].ok /\ log[k].at + log[k].n > Len(ChunkPayload)}

\* C18: when parseChunks succeeds every block it skipped lay wholly
\* inside the payload and no step began past the payload's end; and a
\* skipped block whose declared length runs past the end of the payload
\* makes the chunk fail.
C18_SkipsInsidePayload ==
    (rd.done /\ rd.parsed) =>
       /\ rd.kind = "world" =>
            /\ SkipsPastEnd(rd.clog) = {}
            /\ \A k \in DOMAIN rd.clog : rd.clog[k].at <= Len(ChunkPayload)
       /\ SkipsPastEnd(rd.clog) # {} =>
            rd.kind = "error" /\ rd.cerr.i >= 0

\* Every read that succeeded took its bytes from inside the payload.
C18_ReadsInsidePayload ==
    (rd.done /\ rd.parsed) =>
       \A k \in DOMAIN rd.clog :
          (rd.clog[k].op \in {"read", "full"} /\ rd.clog[k].ok) =>
             rd.clog[k].at + rd.clog[k].n <= Len(ChunkPayload)

\* A world was returned though the last block skipped ran past the end of
\* the payload.
C18_SkippedPastEnd ==
    /\ rd.done
    /\ rd.kind = "world"
    /\ Len(rd.clog) \in SkipsPastEnd(rd.clog)

====
